---- MODULE Spec2Model ----
(***************************************************************************)
(* Provisioning-and-process-orchestration workflow of the mozu on-premise  *)
(* launcher: Orchestrator.start / Orchestrator.stop of                     *)
(* src/main/orchestrator.ts (frontend-only variant) together with the      *)
(* child-process callbacks it installs, and the main-process variant's     *)
(* stopMockEnvironment.                                                    *)
(*                                                                         *)
(* The JavaScript event loop runs one callback to completion at a time, so *)
(* an action is the code executed between two suspension points (an await  *)
(* of a child process, or the arrival of a child event or of an IPC call). *)
(***************************************************************************)
EXTENDS Integers, Sequences, FiniteSets, TLC

\* ---------------------------------------------------------------- bounds
MaxStarts == 2      \* start() calls issued by the caller
MaxStops  == 1      \* stop() calls issued by the caller
MaxEvents == 1      \* unsolicited events of the environment, in total: a failing
                    \* external command or filesystem call, or an output chunk

RunIds == 1..MaxStarts

\* Long-lived children: the frontend child spawned by start() call r is r,
\* the server child spawned by it is SrvId(r).
SrvId(r) == MaxStarts + r
ProcIds == RunIds \cup {SrvId(r) : r \in RunIds}

\* ------------------------------------------------------- status record
Undef   == "undefined"
NoPid   == 0        \* pid field absent from the record (undefined)
NullPid == -1       \* pid field present and null

NoSub == [step |-> Undef, message |-> Undef]

\* { step: 'idle', logs: [] }
IdleStatus ==
  [step |-> "idle", message |-> Undef, logs |-> <<>>,
   serverPid |-> NoPid, frontendPid |-> NoPid, server |-> NoSub, client |-> NoSub]

StepOrder ==
  [s \in {"idle", "checking-tools", "preparing", "cloning", "installing",
          "building", "starting", "running"} |->
     CASE s = "idle" -> 0 [] s = "checking-tools" -> 1 [] s = "preparing" -> 2
       [] s = "cloning" -> 3 [] s = "installing" -> 4 [] s = "building" -> 5
       [] s = "starting" -> 6 [] s = "running" -> 7]

VARIABLES
  status,       \* this.status
  server,       \* this.server   (0 = null, otherwise the child it refers to)
  frontend,     \* this.frontend (0 = null, otherwise the child it refers to)
  workspace,    \* this.workspace
  procs,        \* long-lived children, by the start() call that spawned them
  run,          \* the start() calls: position, config, result
  fsys,         \* the parts of the filesystem the workflow reads and writes:
                \* created = directories made, git = repository directories
                \* holding .git (the frontend directory of workspace ws is
                \* named ws, its server directory ServerDir(ws)), env = the
                \* .env files of the frontend packages that exist, by
                \* directory, modules = directories holding node_modules
  rootEnv,      \* does <appPath>/.env exist
  lastEmitted,  \* the snapshot the subscriber received last
  emitSteps,    \* per start() call: distinct step values emitted since the call
  nStarts, nStops, nEvents,
  stopInfo,     \* what the last stop() call saw and did
  dotenv,       \* a mapping, the .env text written from it, the mapping read back
  call,         \* one call of a helper taken on its own: the function, its
                \* arguments, the await it is suspended at, what it has done
  ui            \* the state of the renderer's App component

vars == <<status, server, frontend, workspace, procs, run, fsys, rootEnv,
          lastEmitted, emitSteps, nStarts, nStops, nEvents, stopInfo, dotenv,
          call, ui>>

\* ------------------------------------------- update / log / emission
\* A "world" w carries the status record through the statements of one
\* callback, together with what the subscriber has been sent:
\*   w.st   this.status
\*   w.em   last snapshot passed to notify
\*   w.es   emitSteps
\*   w.live the start() calls in flight while the callback runs

World(live) == [st |-> status, em |-> lastEmitted, es |-> emitSteps, live |-> live]

AddStep(seq, s) == IF seq # <<>> /\ seq[Len(seq)] = s THEN seq ELSE Append(seq, s)

\* notify(this.status): sendStatus -> webContents.send('status-update', status)
Emit(w) ==
  [w EXCEPT !.em = w.st,
            !.es = [r \in DOMAIN w.es |->
                      IF r \in w.live THEN AddStep(w.es[r], w.st.step) ELSE w.es[r]]]

\* { ...this.status, ...partial, logs: partial.logs ?? this.status.logs }
Merge(st, partial) ==
  [f \in DOMAIN st |-> IF f \in DOMAIN partial THEN partial[f] ELSE st[f]]

update(w, partial, notify) ==
  LET w1 == [w EXCEPT !.st = Merge(w.st, partial)]
  IN  IF notify THEN Emit(w1) ELSE w1

updateServer(w, step, message, notify) ==
  LET w1 == [w EXCEPT !.st.server = [step |-> step, message |-> message]]
  IN  IF notify THEN Emit(w1) ELSE w1

updateClient(w, step, message, notify) ==
  LET w1 == [w EXCEPT !.st.client = [step |-> step, message |-> message]]
  IN  IF notify THEN Emit(w1) ELSE w1

\* Mutant of log: the new line is put in front of the existing ones.
log_Prepend(w, line, notify) == update(w, [logs |-> <<line>> \o w.st.logs], notify)

log(w, line, notify) == update(w, [logs |-> Append(w.st.logs, line)], notify)

RECURSIVE logAll(_, _, _)
logAll(w, lines, notify) ==
  IF lines = <<>> THEN w
  ELSE logAll(log(w, Head(lines), notify), Tail(lines), notify)

\* ------------------------------------------------------------- start()
Configs ==
  { [branch |-> "main", workspaceDir |-> ""],
    [branch |-> "",     workspaceDir |-> "custom"] }

DefaultWorkspace == "default"

NoExec == [cmd |-> "", notify |-> FALSE, hasOutput |-> FALSE, errs |-> 0]

\* A start() call: pc is the await it is suspended at, res/err the value it
\* returned. from, clean, fatal and stopped record its history: the step
\* value when it was called, whether every external command has succeeded,
\* whether one of the steps before the process spawn has failed, and
\* whether stop() was called while it was in flight; probes the tool probes
\* that have completed with their outcome, cmds the commands it has handed to
\* execStream, ws the workspace it has settled on, fs0 the filesystem it
\* was called on, db how the create-schema command it ran has ended, exits
\* the execStream commands that have ended, with their outcome, wrote the
\* .env files createFrontendEnvFiles has written for it.
NoFiles == [created |-> {}, git |-> {}, env |-> {}, modules |-> {}]

InitRun == [pc |-> "init", cfg |-> [branch |-> "", workspaceDir |-> ""],
            res |-> "none", err |-> "", ex |-> NoExec,
            from |-> "none", clean |-> TRUE, fatal |-> FALSE, stopped |-> FALSE,
            probes |-> <<>>, cmds |-> <<>>, ws |-> "", fs0 |-> NoFiles,
            db |-> "none", exits |-> <<>>, wrote |-> <<>>]

InFlight == {r \in RunIds : run[r].pc \notin {"init", "done"}}

NoDotenv == [pc |-> "none", m |-> <<>>, text |-> <<>>, out |-> <<>>]

\* the Orchestrator after construction
InitBase ==
  /\ status = IdleStatus
  /\ server = 0
  /\ frontend = 0
  /\ workspace = DefaultWorkspace
  /\ procs = [p \in ProcIds |-> [state |-> "none", signalled |-> FALSE, exit |-> "none"]]
  /\ run = [r \in RunIds |-> InitRun]
  /\ fsys = NoFiles
  /\ rootEnv \in BOOLEAN
  /\ lastEmitted = IdleStatus
  /\ emitSteps = [r \in RunIds |-> <<>>]
  /\ nStarts = 0 /\ nStops = 0 /\ nEvents = 0
  /\ stopInfo = [pc |-> "none", from |-> "none", tracked |-> {}, killFailed |-> FALSE,
                 timer |-> "none"]

NoCall == [fn |-> "none", in |-> <<>>, pc |-> "none", out |-> <<>>]

\* App after its first render; pending counts the start requests that have
\* not returned, requests those made so far
InitUi == [isRunning |-> FALSE, currentStep |-> "idle", error |-> FALSE,
           pending |-> 0, requests |-> 0]

Init == InitBase /\ dotenv = NoDotenv /\ call = NoCall /\ ui = InitUi

\* ---------------------------------------------------------------------
\* The machine state a callback of start() call r works on: the world plus
\* the fields of the Orchestrator and of the environment it touches.
Machine(r, live) ==
  [w |-> World(live), rr |-> run[r], fsys |-> fsys, workspace |-> workspace,
   procs |-> procs, frontend |-> frontend]

Apply(r, m) ==
  /\ status' = m.w.st
  /\ lastEmitted' = m.w.em
  /\ emitSteps' = m.w.es
  /\ run' = [run EXCEPT ![r] = m.rr]
  /\ fsys' = m.fsys
  /\ workspace' = m.workspace
  /\ procs' = m.procs
  /\ frontend' = m.frontend

\* Mutant of Fail: the error is returned without being put into the status.
Fail_Unreported(m, msg) ==
  [m EXCEPT !.rr = [m.rr EXCEPT !.pc = "done", !.res = "fail", !.err = msg, !.ex = NoExec]]

\* catch (err) { this.update({ step: 'error', message }, notify); return { ok: false, error } }
Fail(m, msg) ==
  [m EXCEPT !.w = update(m.w, [step |-> "error", message |-> msg], TRUE),
            !.rr = [m.rr EXCEPT !.pc = "done", !.res = "fail", !.err = msg, !.ex = NoExec]]

\* execStream, up to the return of the promise: spawn and the [exec] line
execStream(m, pc, cmd, notify) ==
  [m EXCEPT !.w = log(m.w, "[exec] " \o cmd, notify),
            !.rr.pc = pc,
            !.rr.cmds = Append(@, cmd),
            !.rr.ex = [cmd |-> cmd, notify |-> notify, hasOutput |-> FALSE, errs |-> 0]]

\* ensureWorkspace(custom)
ensureWorkspace(m, custom, mkdirOk) ==
  LET ws == IF custom # "" THEN custom ELSE m.workspace
  IN  IF mkdirOk
        THEN [m EXCEPT !.workspace = ws, !.rr.ws = ws, !.fsys.created = @ \cup {ws}]
        ELSE [m EXCEPT !.workspace = ws, !.rr.ws = ws]

\* Mutant of cloneOrPull: the repository is cloned whether or not .git exists.
cloneOrPull_AlwaysClone(m, branch) ==
  execStream([m EXCEPT !.w = log(m.w, "[git] clone url -> frontend...", TRUE)],
             "clone",
             IF branch # "" THEN "git clone -b " \o branch \o " url ."
                            ELSE "git clone url .",
             TRUE)

\* cloneOrPull(frontDir, url, branch, notify), up to the await of execStream
cloneOrPull(m, branch) ==
  IF m.workspace \in m.fsys.git
    THEN execStream([m EXCEPT !.w = log(m.w, "[git] pull in frontend...", TRUE)],
                    "clone", "git pull", TRUE)
    ELSE execStream([m EXCEPT !.w = log(m.w, "[git] clone url -> frontend...", TRUE)],
                    "clone",
                    IF branch # "" THEN "git clone -b " \o branch \o " url ."
                                   ELSE "git clone url .",
                    TRUE)

\* Mutant of AfterTools: the 'preparing' transition is left out.
AfterTools_SkipPreparing(m, mkdirOk) ==
  LET m2 == ensureWorkspace(m, m.rr.cfg.workspaceDir, mkdirOk)
      m3 == [m2 EXCEPT !.w = update(m2.w, [step |-> "cloning", message |-> "Syncing repositories..."], TRUE)]
  IN  IF mkdirOk THEN cloneOrPull(m3, m.rr.cfg.branch)
                 ELSE Fail(m2, "EACCES: mkdir")

\* start(): from the return of ensureTools() to the await inside cloneOrPull
AfterTools(m, mkdirOk) ==
  LET m1 == [m EXCEPT !.w = update(m.w, [step |-> "preparing", message |-> "Preparing workspace..."], TRUE)]
      m2 == ensureWorkspace(m1, m.rr.cfg.workspaceDir, mkdirOk)
      m3 == [m2 EXCEPT !.w = update(m2.w, [step |-> "cloning", message |-> "Syncing repositories..."], TRUE)]
  IN  IF mkdirOk THEN cloneOrPull(m3, m.rr.cfg.branch)
                 ELSE Fail(m2, "EACCES: mkdir")

EnvFiles == <<"packages/admin/.env", "packages/student/.env",
              "packages/ui/.env", "packages/util-config/.env">>

\* createFrontendEnvFiles: the loop over envFileContents; failAt = 0 when
\* every write succeeds, otherwise the index of the file whose write throws
RECURSIVE writeEnvFiles(_, _, _)
writeEnvFiles(w, i, failAt) ==
  IF i > Len(EnvFiles) THEN w
  ELSE IF i = failAt
    THEN log(w, "[env] Failed to create .env file at " \o EnvFiles[i], TRUE)
    ELSE writeEnvFiles(log(w, "[env] Created .env file at " \o EnvFiles[i], TRUE), i + 1, failAt)

createFrontendEnvFiles(m, failAt) ==
  LET written == SubSeq(EnvFiles, 1, IF failAt = 0 THEN Len(EnvFiles) ELSE failAt - 1)
  IN  [m EXCEPT !.w = writeEnvFiles(log(m.w, "[env] Creating .env files for frontend from root .env...", TRUE),
                                    1, failAt),
                !.rr.wrote = written,
                !.fsys.env = @ \cup {<<m.workspace, written[i]>> : i \in DOMAIN written}]

\* installDeps(frontDir, installCommand, notify), up to the await of execStream
installDeps(m) ==
  execStream([m EXCEPT !.w = logAll(m.w, <<"[deps] npm install @ frontend", "[deps] install start">>, TRUE)],
             "install", "npm install", TRUE)

\* Mutant of AfterClone: node_modules is left as it is.
AfterClone_KeepsModules(m, failAt) ==
  LET m1 == [m EXCEPT !.fsys.git = @ \cup {m.workspace}]
      m2 == createFrontendEnvFiles(m1, failAt)
      m3 == [m2 EXCEPT !.w = update(m2.w, [step |-> "installing", message |-> "Installing frontend dependencies..."], TRUE)]
  IN  IF failAt # 0
        THEN Fail(m2, "Failed to create .env file at " \o EnvFiles[failAt])
        ELSE installDeps(m3)

\* start(): from the return of cloneOrPull to the await inside installDeps
AfterClone(m, failAt) ==
  LET m1 == [m EXCEPT !.fsys.git = @ \cup {m.workspace}]
      m2 == createFrontendEnvFiles(m1, failAt)
      m3 == [m2 EXCEPT !.w = update(m2.w, [step |-> "installing", message |-> "Installing frontend dependencies..."], TRUE),
                       !.fsys.modules = @ \ {m.workspace}]
  IN  IF failAt # 0
        THEN Fail(m2, "Failed to create .env file at " \o EnvFiles[failAt])
        ELSE installDeps(m3)

\* start(): from the return of installDeps to the await of the peer-dependency install
AfterInstall(m) ==
  execStream([m EXCEPT !.w = logAll(m.w, <<"[deps] install done",
                                            "[deps] Installing missing peer dependency for framer-motion...">>, TRUE),
                       !.fsys.modules = @ \cup {m.workspace}],
             "peer", "npm install --save @emotion/is-prop-valid", TRUE)

\* start(): from the peer-dependency install to return { ok: true }
\* r is the call, spawnOk whether spawn() created a process
AfterPeer(m, r, spawnOk) ==
  LET w1 == update(m.w, [step |-> "starting", message |-> "Starting processes..."], TRUE)
      w2 == updateClient(w1, "starting", "client starting", TRUE)
      w3 == log(w2, "[start] frontend via label", TRUE)
      w4 == updateServer(w3, "running", "server running", TRUE)
      w5 == updateClient(w4, "running", "client running", TRUE)
      w6 == update(w5, [step |-> "running", message |-> "Running",
                        serverPid |-> NullPid,
                        frontendPid |-> IF spawnOk THEN r ELSE NullPid], TRUE)
  IN  [m EXCEPT !.w = w6,
                !.frontend = r,
                !.procs[r] = [state |-> IF spawnOk THEN "alive" ELSE "failed",
                              signalled |-> FALSE, exit |-> "none"],
                !.rr = [m.rr EXCEPT !.pc = "done", !.res = "ok", !.ex = NoExec]]

\* ------------------------------------------------------------ actions
Faults(flags) == Cardinality({i \in DOMAIN flags : ~flags[i]})

\* A probe and its fallback (yarn and npm install -g yarn, java and javac)
\* count as one event.
Fallback(pc) == pc \in {"yarn_install", "tool_javac"}

Budget(pc, flags) ==
  LET n == IF Fallback(pc) THEN 0 ELSE Faults(flags)
  IN  /\ nEvents + n <= MaxEvents
      /\ nEvents' = nEvents + n

\* the probe of ensureTools that is awaited at pc
ProbeAt ==
  [tool_git |-> "git --version", tool_npm |-> "npm --version", tool_yarn |-> "yarn --version",
   yarn_install |-> "npm install -g yarn", tool_java |-> "java --version",
   tool_javac |-> "javac --version", tool_gradle |-> "gradle --version"]

\* History of the call: some command failed; a step before the spawn failed;
\* the outcome (flags[1]) of the tool probe, and of the execStream command,
\* that has just completed.
Dirty(m, flags, fatal) ==
  [m EXCEPT !.rr.clean = @ /\ Faults(flags) = 0,
            !.rr.fatal = @ \/ fatal,
            !.rr.probes = IF m.rr.pc \in DOMAIN ProbeAt
                            THEN Append(@, [cmd |-> ProbeAt[m.rr.pc], ok |-> flags[1]])
                            ELSE @,
            !.rr.exits = IF m.rr.ex.cmd # ""
                           THEN Append(@, [cmd |-> m.rr.ex.cmd, ok |-> flags[1]])
                           ELSE @]

\* start(config, notify), up to the first await inside ensureTools()
StartCall(cfg) ==
  /\ nStarts < MaxStarts
  /\ InFlight = {}
  /\ LET r  == nStarts + 1
         m0 == Machine(r, {r})
         w1 == IF rootEnv THEN log(m0.w, "[env] Loaded root .env", TRUE) ELSE m0.w
         w2 == update(w1, [step |-> "checking-tools", message |-> "Checking git and npm..."], TRUE)
     IN  /\ Apply(r, [m0 EXCEPT !.w = w2, !.rr.pc = "tool_git", !.rr.cfg = cfg,
                               !.rr.from = status.step, !.rr.fs0 = fsys])
         /\ nStarts' = r
  /\ UNCHANGED <<server, rootEnv, dotenv, nStops, nEvents, stopInfo, call, ui>>

\* Mutant of ToolGit: the workspace is prepared before the missing git is reported.
ToolGit_PreparesFirst(r, ok) ==
  /\ run[r].pc = "tool_git"
  /\ Budget("tool_git", <<ok>>)
  /\ LET m == Dirty(Machine(r, InFlight), <<ok>>, ~ok)
     IN  Apply(r, IF ok THEN [m EXCEPT !.rr.pc = "tool_npm"]
                        ELSE Fail(ensureWorkspace(m, m.rr.cfg.workspaceDir, TRUE), "git missing"))
  /\ UNCHANGED <<server, rootEnv, dotenv, nStarts, nStops, stopInfo, call, ui>>

\* ensureTools: git --version
ToolGit(r, ok) ==
  /\ run[r].pc = "tool_git"
  /\ Budget("tool_git", <<ok>>)
  /\ LET m == Dirty(Machine(r, InFlight), <<ok>>, ~ok)
     IN  Apply(r, IF ok THEN [m EXCEPT !.rr.pc = "tool_npm"]
                        ELSE Fail(m, "git missing"))
  /\ UNCHANGED <<server, rootEnv, dotenv, nStarts, nStops, stopInfo, call, ui>>

\* Mutant of ToolNpm: a missing npm is tolerated and the yarn probe follows.
ToolNpm_Lenient(r, ok) ==
  /\ run[r].pc = "tool_npm"
  /\ Budget("tool_npm", <<ok>>)
  /\ LET m == Dirty(Machine(r, InFlight), <<ok>>, FALSE)
     IN  Apply(r, [m EXCEPT !.rr.pc = "tool_yarn"])
  /\ UNCHANGED <<server, rootEnv, dotenv, nStarts, nStops, stopInfo, call, ui>>

\* ensureTools: npm --version
ToolNpm(r, ok) ==
  /\ run[r].pc = "tool_npm"
  /\ Budget("tool_npm", <<ok>>)
  /\ LET m == Dirty(Machine(r, InFlight), <<ok>>, ~ok)
     IN  Apply(r, IF ok THEN [m EXCEPT !.rr.pc = "tool_yarn"]
                        ELSE Fail(m, "npm missing"))
  /\ UNCHANGED <<server, rootEnv, dotenv, nStarts, nStops, stopInfo, call, ui>>

\* ensureTools: yarn --version, and on failure the start of npm install -g yarn.
\* ensureTools was called without notify, so its log lines are not emitted.
ToolYarn(r, ok) ==
  /\ run[r].pc = "tool_yarn"
  /\ Budget("tool_yarn", <<ok>>)
  /\ LET m == Dirty(Machine(r, InFlight), <<ok>>, FALSE)
     IN  Apply(r, IF ok THEN [m EXCEPT !.rr.pc = "tool_java"]
                  ELSE execStream([m EXCEPT !.w = log(m.w, "[tools] yarn not found. Attempting to install globally via npm...", FALSE)],
                                  "yarn_install", "npm install -g yarn", FALSE))
  /\ UNCHANGED <<server, rootEnv, dotenv, nStarts, nStops, stopInfo, call, ui>>

\* ensureTools: java --version
ToolJava(r, ok) ==
  /\ run[r].pc = "tool_java"
  /\ Budget("tool_java", <<ok>>)
  /\ LET m == Dirty(Machine(r, InFlight), <<ok>>, FALSE)
     IN  Apply(r, IF ok THEN [m EXCEPT !.w = log(m.w, "[tools] Java found.", FALSE), !.rr.pc = "tool_gradle"]
                        ELSE [m EXCEPT !.w = log(m.w, "[tools] Java not found. Checking for javac...", FALSE),
                                       !.rr.pc = "tool_javac"])
  /\ UNCHANGED <<server, rootEnv, dotenv, nStarts, nStops, stopInfo, call, ui>>

\* ensureTools: javac --version
ToolJavac(r, ok) ==
  /\ run[r].pc = "tool_javac"
  /\ Budget("tool_javac", <<ok>>)
  /\ LET m == Dirty(Machine(r, InFlight), <<ok>>, ~ok)
     IN  Apply(r, IF ok THEN [m EXCEPT !.w = log(m.w, "[tools] Java Development Kit found.", FALSE), !.rr.pc = "tool_gradle"]
                        ELSE Fail(m, "Java missing"))
  /\ UNCHANGED <<server, rootEnv, dotenv, nStarts, nStops, stopInfo, call, ui>>

\* ensureTools: gradle --version (never fatal), then start() up to the clone/pull
ToolGradle(r, ok, mkdirOk) ==
  /\ run[r].pc = "tool_gradle"
  /\ Budget("tool_gradle", <<ok, mkdirOk>>)
  /\ LET m  == Dirty(Machine(r, InFlight), <<ok, mkdirOk>>, ~mkdirOk)
         m1 == [m EXCEPT !.w = log(m.w, IF ok THEN "[tools] Gradle found."
                                              ELSE "[tools] Gradle not found. Will use gradlew if available.", FALSE)]
     IN  Apply(r, AfterTools(m1, mkdirOk))
  /\ UNCHANGED <<server, rootEnv, dotenv, nStarts, nStops, stopInfo, call, ui>>

\* ------------------------------------------- execStream child events
ExecPcs == {"yarn_install", "clone", "install", "peer"}

ChunkLine(tagOut, tagErr, kind) ==
  CASE kind = "out"   -> tagOut \o " text"
    [] kind = "err"   -> tagErr \o " text"
    [] kind = "errkw" -> tagErr \o " error: text"

\* p.stdout.on('data') / p.stderr.on('data') of execStream
ExecData(r, kind) ==
  /\ run[r].pc \in ExecPcs
  /\ nEvents < MaxEvents
  /\ nEvents' = nEvents + 1
  /\ LET m == Machine(r, InFlight)
     IN  Apply(r, [m EXCEPT !.w = log(m.w, ChunkLine("[build:out]", "[build:err]", kind), m.rr.ex.notify),
                            !.rr.ex.hasOutput = TRUE,
                            !.rr.ex.errs = IF kind = "errkw" THEN @ + 1 ELSE @])
  /\ UNCHANGED <<server, rootEnv, dotenv, nStarts, nStops, stopInfo, call, ui>>

\* what the awaiting code does when the promise of execStream resolves
Resolved(m, r, failAt, spawnOk) ==
  CASE m.rr.pc = "yarn_install" ->
         [m EXCEPT !.w = log(m.w, "[tools] yarn has been installed globally.", FALSE),
                   !.rr.pc = "tool_java", !.rr.ex = NoExec]
    [] m.rr.pc = "clone"   -> AfterClone(m, failAt)
    [] m.rr.pc = "install" -> AfterInstall(m)
    [] m.rr.pc = "peer"    -> AfterPeer(m, r, spawnOk)

\* Mutant of Rejected: a failed dependency install is logged and the run goes on.
Rejected_SwallowInstall(m, r, msg, spawnOk) ==
  CASE m.rr.pc = "yarn_install" ->
         Fail([m EXCEPT !.w = log(m.w, "[tools] Failed to install yarn globally.", FALSE)],
              "yarn missing and npm install -g yarn failed")
    [] m.rr.pc = "clone"   -> Fail(m, msg)
    [] m.rr.pc = "install" ->
         AfterInstall([m EXCEPT !.w = log(m.w, "[deps] install failed: Error: " \o msg, TRUE)])
    [] m.rr.pc = "peer"    ->
         AfterPeer([m EXCEPT !.w = log(m.w, "[deps] Failed to install peer dependency: " \o msg, TRUE)],
                   r, spawnOk)

\* what the awaiting code does when the promise of execStream rejects with msg
Rejected(m, r, msg, spawnOk) ==
  CASE m.rr.pc = "yarn_install" ->
         Fail([m EXCEPT !.w = log(m.w, "[tools] Failed to install yarn globally.", FALSE)],
              "yarn missing and npm install -g yarn failed")
    [] m.rr.pc = "clone"   -> Fail(m, msg)
    [] m.rr.pc = "install" ->
         Fail([m EXCEPT !.w = log(m.w, "[deps] install failed: Error: " \o msg, TRUE)], msg)
    [] m.rr.pc = "peer"    ->
         AfterPeer([m EXCEPT !.w = log(m.w, "[deps] Failed to install peer dependency: " \o msg, TRUE)],
                   r, spawnOk)

ErrorSummary(ex) == IF ex.errs > 0 THEN "main errors: error: text" ELSE "see the log above"

\* p.on('exit') of execStream with a non-zero code: the three [exec] lines
ExitFailure(m) ==
  LET ex == m.rr.ex
      w1 == IF ~ex.hasOutput
              THEN log(m.w, "[exec] No output from command - possible permission or path issue", ex.notify)
              ELSE m.w
      w2 == log(w1, "[exec] " \o ex.cmd \o " failed (code=1, signal=null)", ex.notify)
      w3 == log(w2, "[exec] " \o ErrorSummary(ex), ex.notify)
  IN  [m EXCEPT !.w = w3]

\* The inputs that matter at this position: which env-file write fails
\* matters after the clone, whether the frontend spawns after the peer install.
Relevant(pc, resolves, failAt, spawnOk) ==
  /\ failAt # 0 => (pc = "clone" /\ resolves)
  /\ ~spawnOk => pc = "peer"

\* p.on('exit') of execStream, and the continuation of start() up to its next await
ExecExit(r, code, failAt, spawnOk) ==
  /\ run[r].pc \in ExecPcs
  /\ Relevant(run[r].pc, code = 0, failAt, spawnOk)
  /\ Budget(run[r].pc, <<code = 0, failAt = 0, spawnOk>>)
  /\ LET m == Dirty(Machine(r, InFlight), <<code = 0, failAt = 0, spawnOk>>,
                  (code # 0 /\ run[r].pc # "peer") \/ failAt # 0)
     IN  Apply(r, IF code = 0
                    THEN Resolved(m, r, failAt, spawnOk)
                    ELSE Rejected(ExitFailure(m), r,
                                  m.rr.ex.cmd \o " exited with code 1. " \o ErrorSummary(m.rr.ex),
                                  spawnOk))
  /\ UNCHANGED <<server, rootEnv, dotenv, nStarts, nStops, stopInfo, call, ui>>

\* p.on('error') of execStream (the command could not be spawned)
ExecError(r, spawnOk) ==
  /\ run[r].pc \in ExecPcs
  /\ Relevant(run[r].pc, FALSE, 0, spawnOk)
  /\ Budget(run[r].pc, <<FALSE, spawnOk>>)
  /\ LET m  == Dirty(Machine(r, InFlight), <<FALSE, spawnOk>>, run[r].pc # "peer")
         m1 == [m EXCEPT !.w = log(m.w, "[exec] Process error: spawn ENOENT", m.rr.ex.notify)]
     IN  Apply(r, Rejected(m1, r, "spawn ENOENT", spawnOk))
  /\ UNCHANGED <<server, rootEnv, dotenv, nStarts, nStops, stopInfo, call, ui>>

\* ------------------------------------------- frontend child events
ExitKinds == {"0", "137", "sig"}

ExitLine(ec) ==
  CASE ec = "0"   -> "[frontend] exited (code=0, signal=null)"
    [] ec = "137" -> "[frontend] exited (code=137, signal=null)"
    [] ec = "sig" -> "[frontend] exited (code=null, signal=SIGINT)"

\* this.frontend.proc.stdout.on('data') / stderr.on('data')
FrontData(p, kind) ==
  /\ procs[p].state = "alive"
  /\ nEvents < MaxEvents
  /\ nEvents' = nEvents + 1
  /\ LET w == log(World(InFlight), ChunkLine("[frontend]", "[frontend:err]", kind), TRUE)
     IN  /\ status' = w.st /\ lastEmitted' = w.em /\ emitSteps' = w.es
  /\ UNCHANGED <<server, frontend, workspace, procs, run, fsys, rootEnv, dotenv,
                 nStarts, nStops, stopInfo, call, ui>>

\* Mutant of FrontExit: a crashed frontend is replaced by a new child.
FrontExit_Respawns(p, ec) ==
  /\ procs[p].state = "alive"
  /\ ec = "sig" => procs[p].signalled
  /\ LET w1 == log(World(InFlight), ExitLine(ec), TRUE)
         w2 == IF ec # "0" THEN updateClient(w1, "error", "client exited unexpectedly", TRUE)
                           ELSE updateClient(w1, "idle", "client exited", TRUE)
     IN  /\ status' = w2.st /\ lastEmitted' = w2.em /\ emitSteps' = w2.es
  /\ LET q == IF p + 1 \in RunIds /\ procs[p + 1].state = "none" /\ ec # "0" THEN p + 1 ELSE 0
     IN  /\ procs' = [x \in ProcIds |->
                        IF x = p THEN [procs[p] EXCEPT !.state = "exited", !.exit = ec]
                        ELSE IF x = q THEN [procs[x] EXCEPT !.state = "alive"]
                        ELSE procs[x]]
         /\ frontend' = IF q # 0 THEN q ELSE frontend
  /\ UNCHANGED <<server, workspace, run, fsys, rootEnv, dotenv,
                 nStarts, nStops, nEvents, stopInfo, call, ui>>

\* Mutant of FrontExit: a clean exit also resets the top-level step to idle.
FrontExit_ResetsStep(p, ec) ==
  /\ procs[p].state = "alive"
  /\ ec = "sig" => procs[p].signalled
  /\ LET w1 == log(World(InFlight), ExitLine(ec), TRUE)
         w2 == IF ec # "0" THEN updateClient(w1, "error", "client exited unexpectedly", TRUE)
                           ELSE update(updateClient(w1, "idle", "client exited", TRUE),
                                       [step |-> "idle"], TRUE)
     IN  /\ status' = w2.st /\ lastEmitted' = w2.em /\ emitSteps' = w2.es
  /\ procs' = [procs EXCEPT ![p].state = "exited", ![p].exit = ec]
  /\ UNCHANGED <<server, frontend, workspace, run, fsys, rootEnv, dotenv,
                 nStarts, nStops, nEvents, stopInfo, call, ui>>

\* Mutant of FrontExit: a crash of the frontend fails the whole run.
FrontExit_FailsRun(p, ec) ==
  /\ procs[p].state = "alive"
  /\ ec = "sig" => procs[p].signalled
  /\ LET w1 == log(World(InFlight), ExitLine(ec), TRUE)
         w2 == IF ec # "0" THEN update(updateClient(w1, "error", "client exited unexpectedly", TRUE),
                                       [step |-> "error", message |-> "client exited unexpectedly"], TRUE)
                           ELSE updateClient(w1, "idle", "client exited", TRUE)
     IN  /\ status' = w2.st /\ lastEmitted' = w2.em /\ emitSteps' = w2.es
  /\ procs' = [procs EXCEPT ![p].state = "exited", ![p].exit = ec]
  /\ UNCHANGED <<server, frontend, workspace, run, fsys, rootEnv, dotenv,
                 nStarts, nStops, nEvents, stopInfo, call, ui>>

\* this.frontend.proc.on('exit', (code, signal) => ...)
FrontExit(p, ec) ==
  /\ procs[p].state = "alive"
  /\ ec = "sig" => procs[p].signalled
  /\ LET w1 == log(World(InFlight), ExitLine(ec), TRUE)
         w2 == IF ec # "0" THEN updateClient(w1, "error", "client exited unexpectedly", TRUE)
                           ELSE updateClient(w1, "idle", "client exited", TRUE)
     IN  /\ status' = w2.st /\ lastEmitted' = w2.em /\ emitSteps' = w2.es
  /\ procs' = [procs EXCEPT ![p].state = "exited", ![p].exit = ec]
  /\ UNCHANGED <<server, frontend, workspace, run, fsys, rootEnv, dotenv,
                 nStarts, nStops, nEvents, stopInfo, call, ui>>

\* ---------------------------------------------------------------- stop()
\* kill(p): taskkill /PID /T /F on win32, p.proc.kill('SIGINT') elsewhere;
\* delivered says whether the request reached a live child (a throw is swallowed)
kill(ps, h, delivered) ==
  IF h # 0 /\ ps[h].state = "alive" /\ delivered
    THEN [ps EXCEPT ![h].signalled = TRUE]
    ELSE ps

Alive(ps, hs) == {h \in hs \ {0} : ps[h].state = "alive"}

\* Mutant of Stop: a failing kill is not swallowed, so the reset is skipped.
Stop_KillThrows(delivered) ==
  /\ nStops < MaxStops
  /\ nStops' = nStops + 1
  /\ procs' = kill(kill(procs, server, delivered), frontend, delivered)
  /\ IF delivered \/ Alive(procs, {server, frontend}) = {}
       THEN server' = 0 /\ frontend' = 0 /\ status' = IdleStatus
       ELSE UNCHANGED <<server, frontend, status>>
  /\ stopInfo' = [pc |-> "resolved", from |-> status.step,
                  tracked |-> Alive(procs, {server, frontend}), killFailed |-> ~delivered,
                  timer |-> "none"]
  /\ run' = [r \in RunIds |-> IF r \in InFlight THEN [run[r] EXCEPT !.stopped = TRUE] ELSE run[r]]
  /\ UNCHANGED <<workspace, fsys, rootEnv, dotenv, lastEmitted, emitSteps, nStarts, nEvents, call, ui>>

\* stop(): both kills, then the handles and the status are reset; nothing is emitted
Stop(delivered) ==
  /\ nStops < MaxStops
  /\ nStops' = nStops + 1
  /\ procs' = kill(kill(procs, server, delivered), frontend, delivered)
  /\ server' = 0
  /\ frontend' = 0
  /\ status' = IdleStatus
  /\ stopInfo' = [pc |-> "resolved", from |-> status.step,
                  tracked |-> Alive(procs, {server, frontend}), killFailed |-> ~delivered,
                  timer |-> "none"]
  /\ run' = [r \in RunIds |-> IF r \in InFlight THEN [run[r] EXCEPT !.stopped = TRUE] ELSE run[r]]
  /\ UNCHANGED <<workspace, fsys, rootEnv, dotenv, lastEmitted, emitSteps, nStarts, nEvents, call, ui>>

\* ------------------------------------------- error-guidance enrichment
\* stderr lines a Spring server can print; Tokens gives the substrings of the
\* lower-cased line that detectServerErrors looks for
ServerLines ==
  {"Failed to start bean 'redisConnectionFactory'", "Connection refused",
   "Port 8080 was already in use", "Failed to bind properties under 'mozu'",
   "Unsupported class file major version 65", "BUILD FAILED in 3s",
   "Spring application run failed", "Started MozuApplication in 4.2 seconds",
   "Spring: Failed to start bean 'redis': Connection refused"}

Tokens(line) ==
  CASE line = "Failed to start bean 'redisConnectionFactory'" ->
         {"failed to start bean", "redis", "failed"}
    [] line = "Connection refused" -> {"connection refused"}
    [] line = "Port 8080 was already in use" -> {"port", "already in use"}
    [] line = "Failed to bind properties under 'mozu'" ->
         {"failed to bind properties", "failed"}
    [] line = "Unsupported class file major version 65" ->
         {"unsupported class file major version"}
    [] line = "BUILD FAILED in 3s" -> {"build failed", "failed"}
    [] line = "Spring application run failed" -> {"spring", "failed"}
    [] line = "Spring: Failed to start bean 'redis': Connection refused" ->
         {"spring", "failed to start bean", "redis", "connection refused", "failed"}
    [] OTHER -> {}

Hits(line, toks) == Tokens(line) \cap toks # {}

\* the conditions of the seven rules of detectServerErrors, in the order of
\* the source
Matches(line) ==
  << Hits(line, {"failed to start bean"}) /\ Hits(line, {"redis"}),
     Hits(line, {"communications link failure", "connection refused",
                 "access denied for user"}),
     Hits(line, {"port"}) /\ Hits(line, {"already in use", "address already in use"}),
     Hits(line, {"failed to bind properties", "property"}),
     Hits(line, {"unsupported class file major version", "java.lang.unsupportedclassversion",
                 "kotlin compilation failed", "incompatible kotlin version"}),
     Hits(line, {"build failed", "compilation failed", "gradle build failed", "ktlint"}),
     Hits(line, {"spring"}) /\ Hits(line, {"failed", "error"}) >>

\* Mutant of Rule: the last rule that matches fires.
Rule_LastMatch(line) ==
  LET S == {k \in DOMAIN Matches(line) : Matches(line)[k]}
  IN  IF S = {} THEN 0 ELSE CHOOSE k \in S : \A j \in S : j <= k

\* the rule that fires: each if of the source returns, so it is the first
\* whose condition holds; 0 = none
Rule(line) ==
  LET S == {k \in DOMAIN Matches(line) : Matches(line)[k]}
  IN  IF S = {} THEN 0 ELSE CHOOSE k \in S : \A j \in S : k <= j

Guidance ==
  << [message |-> "Redis connection failed",
      lines |-> <<"fix:", "1. brew install redis", "2. brew services start redis",
                  "3. redis-server", "https://redis.io/download">>],
     [message |-> "MySQL connection failed",
      lines |-> <<"fix:", "1. brew services list | grep mysql", "2. brew services start mysql",
                  "3. check DB_PASSWORD in .env", "https://dev.mysql.com/downloads/mysql/">>],
     [message |-> "Port conflict",
      lines |-> <<"fix:", "1. lsof -i :8080", "2. kill -9 <PID>",
                  "3. change server.port in application.yml">>],
     [message |-> "Environment variable error",
      lines |-> <<"fix:", "1. check .env", "2. check application.yml", "3. restart server">>],
     [message |-> "Java/Kotlin version incompatibility",
      lines |-> <<"requirements:", "- JDK: OpenJDK 17.0.16 (Homebrew)", "- Kotlin: 1.9.25",
                  "- Spring Boot: 3.5.4", "", "fix:", "1. java -version", "2. echo $JAVA_HOME",
                  "3. ./gradlew -version", "4. brew install openjdk@17",
                  "5. export JAVA_HOME=/opt/homebrew/opt/openjdk@17">>],
     [message |-> "Gradle/Kotlin build failed",
      lines |-> <<"build environment:", "- Gradle: 8.14.3", "- Kotlin: 1.9.25",
                  "- Spring Boot: 3.5.4", "- Ktlint: 11.5.1", "", "fix:", "1. ./gradlew clean",
                  "2. ./gradlew build --refresh-dependencies", "3. ./gradlew compileKotlin",
                  "4. ./gradlew ktlintCheck", "5. ./gradlew bootRun --info --stacktrace">>],
     [message |-> "Spring Boot application error",
      lines |-> <<"Spring Boot 3.5.4 checklist:", "1. application.yml", "2. .env binding",
                  "3. MySQL connection", "4. Redis server", "5. port conflict (8080)", "",
                  "./gradlew bootRun --debug">>] >>

\* Mutant of detectServerErrors: the guidance replaces the log instead of extending it.
detectServerErrors_Replace(w, errorMessage, notify) ==
  LET k == Rule(errorMessage)
  IN  IF k = 0 THEN w
      ELSE update(w, [step |-> "error", message |-> Guidance[k].message,
                      logs |-> Guidance[k].lines], notify)

detectServerErrors(w, errorMessage, notify) ==
  LET k == Rule(errorMessage)
  IN  IF k = 0 THEN w
      ELSE update(w, [step |-> "error", message |-> Guidance[k].message,
                      logs |-> w.st.logs \o Guidance[k].lines], notify)

\* a stderr line of the running child is handed to detectServerErrors
ErrLine(p, line) ==
  /\ procs[p].state = "alive"
  /\ nEvents < MaxEvents
  /\ nEvents' = nEvents + 1
  /\ LET w == detectServerErrors(log(World(InFlight), "[server:err] " \o line, TRUE), line, TRUE)
     IN  /\ status' = w.st /\ lastEmitted' = w.em /\ emitSteps' = w.es
  /\ UNCHANGED <<server, frontend, workspace, procs, run, fsys, rootEnv, dotenv,
                 nStarts, nStops, stopInfo, call, ui>>

Next ==
  \/ \E cfg \in Configs : StartCall(cfg)
  \/ \E r \in RunIds, ok \in BOOLEAN : ToolGit(r, ok)
  \/ \E r \in RunIds, ok \in BOOLEAN : ToolNpm(r, ok)
  \/ \E r \in RunIds, ok \in BOOLEAN : ToolYarn(r, ok)
  \/ \E r \in RunIds, ok \in BOOLEAN : ToolJava(r, ok)
  \/ \E r \in RunIds, ok \in BOOLEAN : ToolJavac(r, ok)
  \/ \E r \in RunIds, ok, mkdirOk \in BOOLEAN : ToolGradle(r, ok, mkdirOk)
  \/ \E r \in RunIds, kind \in {"out", "err", "errkw"} : ExecData(r, kind)
  \/ \E r \in RunIds, code \in {0, 1}, failAt \in 0..Len(EnvFiles), spawnOk \in BOOLEAN :
       ExecExit(r, code, failAt, spawnOk)
  \/ \E r \in RunIds, spawnOk \in BOOLEAN : ExecError(r, spawnOk)
  \/ \E p \in RunIds, kind \in {"out", "err"} : FrontData(p, kind)
  \/ \E p \in RunIds, ec \in ExitKinds : FrontExit(p, ec)
  \/ \E delivered \in BOOLEAN : Stop(delivered)

Spec == Init /\ [][Next]_vars

\* ---------------------------------------------------------------------
\* The main-process variant: startMockEnvironment / stopMockEnvironment work
\* on the module-level status and frontend of main.ts.
updateStatus(w, partial, notify) ==
  LET w1 == [w EXCEPT !.st = Merge(w.st, partial)]
  IN  IF notify THEN Emit(w1) ELSE w1

logMessage(w, line, notify) == updateStatus(w, [logs |-> Append(w.st.logs, line)], notify)

MainConfigs ==
  { [branch |-> "develop", workspaceDir |-> ""],
    [branch |-> "main",    workspaceDir |-> "custom"] }

\* const workspaceDir = config.workspaceDir || path.join(userData, 'workspace')
WorkspaceDir(cfg) == IF cfg.workspaceDir # "" THEN cfg.workspaceDir ELSE DefaultWorkspace

\* execStream of main.ts, up to the return of the promise
mainExecStream(m, pc, cmd) ==
  [m EXCEPT !.w = logMessage(m.w, "[exec] " \o cmd, TRUE),
            !.rr.pc = pc,
            !.rr.cmds = Append(@, cmd),
            !.rr.ex = [cmd |-> cmd, notify |-> TRUE, hasOutput |-> FALSE, errs |-> 0]]

\* catch (err) { updateStatus({ step: 'error', message }, notify); return { ok: false, error } }
MainFail(m, msg) ==
  [m EXCEPT !.w = updateStatus(m.w, [step |-> "error", message |-> msg], TRUE),
            !.rr = [m.rr EXCEPT !.pc = "done", !.res = "fail", !.err = msg, !.ex = NoExec]]

\* ensureTools: the check of one tool, up to the await inside checkTool
CheckTool(m, pc, label, tool) ==
  mainExecStream([m EXCEPT !.w = logMessage(m.w, "[tools] Checking " \o label \o " installation...", TRUE)],
                 pc, "which " \o tool)

\* ensureTools: the tool was found; its version is asked for
ToolFound(m, pc, label, tool) ==
  mainExecStream([m EXCEPT !.w = logMessage(m.w, "[tools] ok " \o label \o " found and working.", TRUE)],
                 pc, tool \o " --version")

\* ensureTools: the tool is missing
ToolMissing(m, label) ==
  MainFail([m EXCEPT !.w = logMessage(m.w, "[tools] x " \o label \o " not found.", TRUE)],
           label \o " is not installed")

\* startMockEnvironment: from the return of ensureTools to the await of git
MainPrepare(m, side) ==
  LET ws == WorkspaceDir(m.rr.cfg)
      w1 == logMessage(m.w, "[tools] All required tools are available!", TRUE)
      w2 == updateStatus(w1, [step |-> "preparing", message |-> "Preparing..."], TRUE)
      w3 == logMessage(w2, "[workspace] Using workspace directory: " \o ws, TRUE)
      w4 == logMessage(w3, "[frontend] Frontend directory: " \o ws \o "/frontend", TRUE)
      m4 == [m EXCEPT !.w = w4]
  IN  IF side = "fsfail" THEN MainFail(m4, "EACCES: mkdir")
      ELSE LET m5 == [m4 EXCEPT !.fsys.created = @ \cup {ws}]
           IN  IF ws \in m.fsys.git
                 THEN mainExecStream(
                        [m5 EXCEPT !.w = updateStatus(
                            logMessage(m5.w, "[git] Frontend directory exists, pulling latest changes...", TRUE),
                            [step |-> "cloning", message |-> "Updating git repository..."], TRUE)],
                        "git_pull", "git pull")
                 ELSE mainExecStream(
                        [m5 EXCEPT !.w = updateStatus(
                            logMessage(m5.w, "[git] Cloning frontend repository: url", TRUE),
                            [step |-> "cloning", message |-> "Cloning git repository..."], TRUE)],
                        "git_clone", "git clone url frontend")

\* startMockEnvironment: from the end of the git commands to the await
\* inside installDeps (installCommand defaults to 'yarn install')
MainInstall(m) ==
  LET w1 == updateStatus(m.w, [step |-> "installing", message |-> "Installing dependencies..."], TRUE)
      w2 == logMessage(w1, "[deps] Cleaning up frontend node_modules...", TRUE)
      w3 == logMessage(w2, "[deps] Installing dependencies using yarn install...", TRUE)
      w4 == logMessage(w3, "[deps] Running: yarn install", TRUE)
  IN  mainExecStream([m EXCEPT !.w = w4, !.fsys.modules = @ \ {WorkspaceDir(m.rr.cfg)}],
                     "deps", "yarn install")

\* startMockEnvironment: after git clone has succeeded
MainCloned(m) ==
  LET m1 == [m EXCEPT !.fsys.git = @ \cup {WorkspaceDir(m.rr.cfg)}]
  IN  IF m.rr.cfg.branch \notin {"", "main", "master"}
        THEN mainExecStream(
               [m1 EXCEPT !.w = logMessage(m1.w, "[git] Switching to branch: " \o m.rr.cfg.branch, TRUE)],
               "git_checkout", "git checkout " \o m.rr.cfg.branch)
        ELSE MainInstall(m1)

\* startMockEnvironment: from the return of installDeps to return { ok: true }
MainLaunch(m, r, side) ==
  LET w1 == logMessage(m.w, "[config] Creating .env.local files for packages structure...", TRUE)
      w2 == logAll(w1, <<"[config] Admin .env.local created", "[config] Student .env.local created",
                         "[config] Util-config .env.local created",
                         "[config] Environment variables configured for packages structure">>, TRUE)
      w3 == updateStatus(w2, [step |-> "starting", message |-> "Starting frontend..."], TRUE)
      w4 == updateClient(w3, "starting", "dev server starting", TRUE)
      w5 == logMessage(w4, "[start] frontend via yarn dev", TRUE)
      w6 == updateClient(w5, "running", "client running", TRUE)
      w7 == updateStatus(w6, [step |-> "running", message |-> "Frontend Running",
                              serverPid |-> NullPid,
                              frontendPid |-> IF side = "spawnfail" THEN NullPid ELSE r], TRUE)
  IN  IF side = "fsfail" THEN MainFail([m EXCEPT !.w = w1], "EACCES: open .env.local")
      ELSE [m EXCEPT !.w = w7,
                     !.frontend = r,
                     !.procs[r] = [state |-> IF side = "spawnfail" THEN "failed" ELSE "alive",
                                   signalled |-> FALSE, exit |-> "none"],
                     !.rr = [m.rr EXCEPT !.pc = "done", !.res = "ok", !.ex = NoExec]]

\* what startMockEnvironment does when the awaited command has succeeded
MainResolved(m, r, side) ==
  CASE m.rr.pc = "which_git"    -> ToolFound(m, "git_version", "Git", "git")
    [] m.rr.pc = "git_version"  -> CheckTool(m, "which_node", "Node.js", "node")
    [] m.rr.pc = "which_node"   -> ToolFound(m, "node_version", "Node.js", "node")
    [] m.rr.pc = "node_version" -> CheckTool(m, "which_yarn", "yarn", "yarn")
    [] m.rr.pc = "which_yarn"   -> ToolFound(m, "yarn_version", "Yarn", "yarn")
    [] m.rr.pc = "yarn_version" -> MainPrepare(m, side)
    [] m.rr.pc = "git_pull"     -> MainInstall(m)
    [] m.rr.pc = "git_clone"    -> MainCloned(m)
    [] m.rr.pc = "git_checkout" -> MainInstall(m)
    [] m.rr.pc = "deps"         -> MainLaunch([m EXCEPT !.fsys.modules = @ \cup {WorkspaceDir(m.rr.cfg)}],
                                              r, side)

\* ... and when it has failed: a missing tool and a failed git or yarn
\* command end the run, a failed --version is ignored
MainRejected(m, r, msg, side) ==
  CASE m.rr.pc = "which_git"  -> ToolMissing(m, "Git")
    [] m.rr.pc = "which_node" -> ToolMissing(m, "Node.js")
    [] m.rr.pc = "which_yarn" -> ToolMissing(m, "Yarn")
    [] m.rr.pc \in {"git_version", "node_version", "yarn_version"} -> MainResolved(m, r, side)
    [] OTHER -> MainFail(m, msg)

MainPcs == {"which_git", "git_version", "which_node", "node_version", "which_yarn",
            "yarn_version", "git_pull", "git_clone", "git_checkout", "deps"}

Sides == {"ok", "fsfail", "spawnfail"}

\* the failures that can follow the command awaited at pc
SideAt(pc, ok) ==
  CASE pc = "deps" /\ ok -> Sides
    [] pc = "yarn_version" -> {"ok", "fsfail"}
    [] OTHER -> {"ok"}

MainBudget(ok, side) ==
  LET n == (IF ok THEN 0 ELSE 1) + (IF side = "ok" THEN 0 ELSE 1)
  IN  /\ nEvents + n <= MaxEvents
      /\ nEvents' = nEvents + n

\* ipcMain.handle('start-mock'): startMockEnvironment up to its first await
MainStart(cfg) ==
  /\ nStarts < MaxStarts
  /\ InFlight = {}
  /\ nStarts' = nStarts + 1
  /\ LET r  == nStarts + 1
         m  == [Machine(r, {r}) EXCEPT !.rr = [InitRun EXCEPT !.cfg = cfg, !.from = status.step]]
         m1 == [m EXCEPT !.w = updateStatus(m.w, [step |-> "checking-tools",
                                                  message |-> "Checking environment..."], TRUE)]
     IN  Apply(r, CheckTool(m1, "which_git", "Git", "git"))
  /\ UNCHANGED <<server, rootEnv, dotenv, nStops, nEvents, stopInfo, call, ui>>

\* p.stdout.on('data') / p.stderr.on('data') of execStream in main.ts
MainExecData(r, kind) ==
  /\ run[r].pc \in MainPcs
  /\ nEvents < MaxEvents
  /\ nEvents' = nEvents + 1
  /\ Apply(r, [Machine(r, InFlight) EXCEPT
                 !.w = logMessage(@, ChunkLine("[out]", "[err]", kind), TRUE)])
  /\ UNCHANGED <<server, rootEnv, dotenv, nStarts, nStops, stopInfo, call, ui>>

\* p.on('exit') of execStream in main.ts, and the code that awaits it
MainExecExit(r, code, side) ==
  /\ run[r].pc \in MainPcs
  /\ side \in SideAt(run[r].pc, code = 0)
  /\ MainBudget(code = 0, side)
  /\ LET m == Machine(r, InFlight)
     IN  Apply(r, IF code = 0 THEN MainResolved(m, r, side)
                  ELSE MainRejected(m, r, "Command failed with exit code 1", side))
  /\ UNCHANGED <<server, rootEnv, dotenv, nStarts, nStops, stopInfo, call, ui>>

\* p.on('error') of execStream in main.ts, and the code that awaits it
MainExecError(r, side) ==
  /\ run[r].pc \in MainPcs
  /\ side \in SideAt(run[r].pc, FALSE)
  /\ MainBudget(FALSE, side)
  /\ LET m  == Machine(r, InFlight)
         m1 == [m EXCEPT !.w = logMessage(m.w, "[error] spawn ENOENT", TRUE)]
     IN  Apply(r, MainRejected(m1, r, "spawn ENOENT", side))
  /\ UNCHANGED <<server, rootEnv, dotenv, nStarts, nStops, stopInfo, call, ui>>

\* frontend.proc.stdout.on('data') / stderr.on('data') in main.ts
MainFrontData(p, kind) ==
  /\ procs[p].state = "alive"
  /\ nEvents < MaxEvents
  /\ nEvents' = nEvents + 1
  /\ LET w == logMessage(World(InFlight), ChunkLine("[frontend]", "[frontend:err]", kind), TRUE)
     IN  /\ status' = w.st /\ lastEmitted' = w.em /\ emitSteps' = w.es
  /\ UNCHANGED <<server, frontend, workspace, procs, run, fsys, rootEnv, dotenv,
                 nStarts, nStops, stopInfo, call, ui>>

\* frontend.proc.on('exit') in main.ts; the once('exit', cleanup) that a
\* pending stopMockEnvironment has registered on this child runs after it
MainFrontExit(p, ec) ==
  /\ procs[p].state = "alive"
  /\ ec = "sig" => procs[p].signalled
  /\ LET w1 == logMessage(World(InFlight), ExitLine(ec), TRUE)
         w2 == IF ec # "0" THEN updateClient(w1, "error", "client exited unexpectedly", TRUE)
                           ELSE updateClient(w1, "idle", "client exited", TRUE)
     IN  /\ status' = w2.st /\ lastEmitted' = w2.em /\ emitSteps' = w2.es
  /\ procs' = [procs EXCEPT ![p].state = "exited", ![p].exit = ec]
  /\ stopInfo' = IF stopInfo.pc = "waiting" /\ p \in stopInfo.tracked
                   THEN [stopInfo EXCEPT !.pc = "resolved"]
                   ELSE stopInfo
  /\ UNCHANGED <<server, frontend, workspace, run, fsys, rootEnv, dotenv, nStarts, nStops, nEvents, call, ui>>

\* ipcMain.handle('stop-mock'): stopMockEnvironment up to the return of its
\* promise, or to its end when no frontend is tracked
stopMockEnvironment(delivered) ==
  /\ nStops < MaxStops
  /\ nStops' = nStops + 1
  /\ IF frontend # 0
       THEN /\ procs' = kill(procs, frontend, delivered)
            /\ stopInfo' = [pc |-> "waiting", from |-> status.step,
                            tracked |-> {frontend}, killFailed |-> ~delivered,
                            timer |-> IF delivered THEN "none" ELSE "armed"]
            /\ UNCHANGED <<status, frontend>>
       ELSE /\ frontend' = 0
            /\ status' = IdleStatus
            /\ stopInfo' = [pc |-> "resolved", from |-> status.step,
                            tracked |-> {}, killFailed |-> FALSE, timer |-> "none"]
            /\ UNCHANGED procs
  /\ run' = [r \in RunIds |-> IF r \in InFlight THEN [run[r] EXCEPT !.stopped = TRUE] ELSE run[r]]
  /\ UNCHANGED <<server, workspace, fsys, rootEnv, dotenv, lastEmitted, emitSteps, nStarts, nEvents, call, ui>>

\* setTimeout(() => { if (frontend?.proc && !frontend.proc.killed) kill('SIGKILL') }, 3000)
MainStopEscalate ==
  /\ stopInfo.timer = "armed"
  /\ stopInfo' = [stopInfo EXCEPT !.timer = "fired"]
  /\ procs' = IF frontend # 0 /\ procs[frontend].state = "alive"
                THEN [procs EXCEPT ![frontend].signalled = TRUE]
                ELSE procs
  /\ UNCHANGED <<status, server, frontend, workspace, run, fsys, rootEnv, dotenv, lastEmitted,
                 emitSteps, nStarts, nStops, nEvents, call, ui>>

\* setTimeout(cleanup, 5000), or the exit of taskkill.exe on win32
MainStopTimeout ==
  /\ stopInfo.pc = "waiting"
  /\ stopInfo' = [stopInfo EXCEPT !.pc = "resolved"]
  /\ UNCHANGED <<status, server, frontend, workspace, procs, run, fsys, rootEnv, dotenv, lastEmitted,
                 emitSteps, nStarts, nStops, nEvents, call, ui>>

NextMain ==
  \/ \E cfg \in MainConfigs : MainStart(cfg)
  \/ \E r \in RunIds, kind \in {"out", "err"} : MainExecData(r, kind)
  \/ \E r \in RunIds, code \in {0, 1}, side \in Sides : MainExecExit(r, code, side)
  \/ \E r \in RunIds, side \in Sides : MainExecError(r, side)
  \/ \E p \in RunIds, kind \in {"out", "err"} : MainFrontData(p, kind)
  \/ \E p \in RunIds, ec \in ExitKinds : MainFrontExit(p, ec)
  \/ \E delivered \in BOOLEAN : stopMockEnvironment(delivered)
  \/ MainStopEscalate
  \/ MainStopTimeout

\* main.ts reads no root .env file
InitMain == Init /\ ~rootEnv

SpecMain == InitMain /\ [][NextMain]_vars

\* ---------------------------------------------------------------------
\* .env files: parseDotEnv and stringifyDotEnv. A string is the sequence of
\* its characters.
MaxValLen == 2      \* longest value of a mapping

Chars == {"a", "=", " ", "#", "'", "\"", "\\", "\n"}

Keys == {<<"A">>, <<"B">>}

KeyOrder == << <<"A">>, <<"B">> >>

Values == UNION {[1..n -> Chars] : n \in 0..MaxValLen}

Mappings == UNION {[K -> Values] : K \in SUBSET Keys}

\* \s of a JavaScript regular expression, and what String.prototype.trim removes
IsSpace(c) == c \in {" ", "\n"}

RECURSIVE TrimStart(_)
TrimStart(str) ==
  IF str # <<>> /\ IsSpace(Head(str)) THEN TrimStart(Tail(str)) ELSE str

RECURSIVE TrimEnd(_)
TrimEnd(str) ==
  IF str # <<>> /\ IsSpace(str[Len(str)]) THEN TrimEnd(SubSeq(str, 1, Len(str) - 1)) ELSE str

Trim(str) == TrimEnd(TrimStart(str))

\* str.indexOf(c), counted from 1; 0 when c does not occur
IndexOf(str, c) ==
  IF \E i \in DOMAIN str : str[i] = c
    THEN CHOOSE i \in DOMAIN str : str[i] = c /\ \A j \in 1..(i - 1) : str[j] # c
    ELSE 0

\* text.split(/\r?\n/)
RECURSIVE SplitLines(_)
SplitLines(text) ==
  LET i == IndexOf(text, "\n")
  IN  IF i = 0 THEN <<text>>
      ELSE <<SubSeq(text, 1, i - 1)>> \o SplitLines(SubSeq(text, i + 1, Len(text)))

\* JSON.stringify of a string
RECURSIVE JsonEscape(_)
JsonEscape(str) ==
  IF str = <<>> THEN <<>>
  ELSE (CASE Head(str) = "\"" -> <<"\\", "\"">>
          [] Head(str) = "\\" -> <<"\\", "\\">>
          [] Head(str) = "\n" -> <<"\\", "n">>
          [] OTHER -> <<Head(str)>>) \o JsonEscape(Tail(str))

JsonStringify(str) == <<"\"">> \o JsonEscape(str) \o <<"\"">>

\* /[\s#'"`]/.test(v)
NeedsQuotes(v) == \E i \in DOMAIN v : IsSpace(v[i]) \/ v[i] \in {"#", "'", "\""}

RECURSIVE EntryLines(_, _)
EntryLines(obj, ks) ==
  IF ks = <<>> THEN <<>>
  ELSE IF Head(ks) \in DOMAIN obj
    THEN LET v == obj[Head(ks)]
         IN  Head(ks) \o <<"=">> \o (IF NeedsQuotes(v) THEN JsonStringify(v) ELSE v) \o <<"\n">>
             \o EntryLines(obj, Tail(ks))
    ELSE EntryLines(obj, Tail(ks))

\* entries.map(`${k}=${...}`).join('\n') + '\n'
stringifyDotEnv(obj) ==
  IF DOMAIN obj = {} THEN <<"\n">> ELSE EntryLines(obj, KeyOrder)

Quoted(val, q) == val # <<>> /\ Head(val) = q /\ val[Len(val)] = q

\* the body of the loop of parseDotEnv for one raw line
ParseLine(out, raw) ==
  LET line == Trim(raw)
      eq   == IndexOf(line, "=")
      key  == Trim(SubSeq(line, 1, eq - 1))
      val  == Trim(SubSeq(line, eq + 1, Len(line)))
      unq  == IF Quoted(val, "'") \/ Quoted(val, "\"")
                THEN SubSeq(val, 2, Len(val) - 1) ELSE val
  IN  IF line = <<>> \/ Head(line) = "#" \/ eq = 0 THEN out
      ELSE [k \in DOMAIN out \cup {key} |-> IF k = key THEN unq ELSE out[k]]

RECURSIVE ParseLines(_, _)
ParseLines(out, lines) ==
  IF lines = <<>> THEN out ELSE ParseLines(ParseLine(out, Head(lines)), Tail(lines))

parseDotEnv(text) == ParseLines(<<>>, SplitLines(text))

\* mergeWriteEnv writes the mapping with stringifyDotEnv ...
WriteEnv ==
  /\ dotenv.pc = "map"
  /\ dotenv' = [dotenv EXCEPT !.pc = "text", !.text = stringifyDotEnv(dotenv.m)]
  /\ UNCHANGED <<status, server, frontend, workspace, procs, run, fsys, rootEnv,
                 lastEmitted, emitSteps, nStarts, nStops, nEvents, stopInfo, call, ui>>

\* ... and loadServerEnv / mergeWriteEnv read it back with parseDotEnv
ReadEnv ==
  /\ dotenv.pc = "text"
  /\ dotenv' = [dotenv EXCEPT !.pc = "parsed", !.out = parseDotEnv(dotenv.text)]
  /\ UNCHANGED <<status, server, frontend, workspace, procs, run, fsys, rootEnv,
                 lastEmitted, emitSteps, nStarts, nStops, nEvents, stopInfo, call, ui>>

InitDotenv ==
  /\ InitBase /\ rootEnv /\ call = NoCall /\ ui = InitUi
  /\ \E m \in Mappings : dotenv = [pc |-> "map", m |-> m, text |-> <<>>, out |-> <<>>]

NextDotenv == WriteEnv \/ ReadEnv

SpecDotenv == InitDotenv /\ [][NextDotenv]_vars

\* the supervisor with the error-guidance classifier attached to the child's
\* stderr stream
NextGuided ==
  \/ Next
  \/ \E p \in RunIds, line \in ServerLines : ErrLine(p, line)

SpecGuided == Init /\ [][NextGuided]_vars

\* ---------------------------------------------------------------------
\* The server-inclusive workflow: Orchestrator.start of the variant that
\* provisions and runs the Spring server next to the frontend. The server
\* repository is a Gradle project that ships the gradlew wrapper, installed
\* and started with the default commands, on a platform other than win32
\* (ensureMySQLOnWindows returns at once). update, log, execStream,
\* ensureTools, ensureWorkspace, createFrontendEnvFiles and stop of this
\* variant are the same code as in the frontend-only one.
MaxSrvStarts == 1   \* start() calls of the server-inclusive workflow

ServerDir(ws) == ws \o "/server"

SrvMachine(r, live) ==
  [w |-> World(live), rr |-> run[r], fsys |-> fsys, workspace |-> workspace,
   procs |-> procs, frontend |-> frontend, server |-> server]

SrvApply(r, m) == Apply(r, m) /\ server' = m.server

\* cloneOrPull(targetDir, url, branch, notify), up to the await of execStream
srvCloneOrPull(m, dir, name, pc, branch) ==
  IF dir \in m.fsys.git
    THEN execStream([m EXCEPT !.w = log(m.w, "[git] pull in " \o name \o "...", TRUE)],
                    pc, "git pull", TRUE)
    ELSE execStream([m EXCEPT !.w = log(m.w, "[git] clone url -> " \o name \o "...", TRUE)],
                    pc,
                    IF branch # "" THEN "git clone -b " \o branch \o " url ."
                                   ELSE "git clone url .",
                    TRUE)

\* start(): from the return of ensureTools() to the await inside the first cloneOrPull
SrvAfterTools(m, mkdirOk) ==
  LET m1 == [m EXCEPT !.w = update(m.w, [step |-> "preparing", message |-> "Preparing workspace..."], TRUE)]
      m2 == ensureWorkspace(m1, m.rr.cfg.workspaceDir, mkdirOk)
      m3 == [m2 EXCEPT !.w = update(m2.w, [step |-> "cloning", message |-> "Syncing repositories..."], TRUE)]
  IN  IF mkdirOk THEN srvCloneOrPull(m3, ServerDir(m3.workspace), "server", "s_clone_server", m.rr.cfg.branch)
                 ELSE Fail(m2, "EACCES: mkdir")

\* start(): from the server's cloneOrPull to the await inside the frontend's
SrvAfterCloneServer(m) ==
  srvCloneOrPull([m EXCEPT !.fsys.git = @ \cup {ServerDir(m.workspace)}],
                 m.workspace, "frontend", "s_clone_front", m.rr.cfg.branch)

\* installDeps(serverDir): a Gradle project with gradlew and no install command
srvInstallServer(m) ==
  execStream([m EXCEPT !.w = logAll(m.w, <<"[deps] ./gradlew build --info --stacktrace @ server",
                                            "[deps] build start">>, TRUE)],
             "s_install_server", "./gradlew build --info --stacktrace", TRUE)

\* start(): from the frontend's cloneOrPull to the await inside installDeps(serverDir)
SrvAfterCloneFront(m, failAt) ==
  LET m1 == [m EXCEPT !.fsys.git = @ \cup {m.workspace}]
      m2 == createFrontendEnvFiles(m1, failAt)
      w3 == update(m2.w, [step |-> "installing", message |-> "Installing dependencies..."], TRUE)
      w4 == log(w3, "[deps] Cleaning up existing node_modules directories...", TRUE)
  IN  IF failAt # 0
        THEN Fail(m2, "Failed to create .env file at " \o EnvFiles[failAt])
        ELSE srvInstallServer([m2 EXCEPT !.w = w4,
                                         !.fsys.modules = @ \ {ServerDir(m.workspace), m.workspace}])

\* start(): from the server's installDeps to the await inside the frontend's
SrvAfterInstallServer(m) ==
  execStream([m EXCEPT !.w = logAll(m.w, <<"[deps] build done", "[deps] npm install @ frontend",
                                            "[deps] install start">>, TRUE)],
             "s_install_front", "npm install", TRUE)

\* start(): from the frontend's installDeps to the chmod of ensureServerExtras
SrvAfterInstallFront(m) ==
  [m EXCEPT !.w = logAll(m.w, <<"[deps] install done",
                                "[deps-extra] Gradle project detected">>, TRUE),
            !.fsys.modules = @ \cup {m.workspace},
            !.rr.pc = "s_chmod", !.rr.ex = NoExec]

\* createDatabaseIfNeeded, up to the await of the child's exit or error
createDatabaseIfNeeded(m) == [m EXCEPT !.rr.pc = "s_mysql", !.rr.db = "spawned"]

\* ensureServerExtras after the chmod, ensureMySQLOnWindows, loadServerEnv,
\* and createDatabaseIfNeeded up to its await
SrvAfterChmod(m, ok) ==
  createDatabaseIfNeeded(
    [m EXCEPT !.w = log(m.w, IF ok THEN "[deps-extra] gradlew made executable"
                                   ELSE "[deps-extra] chmod of gradlew failed (ignored)", TRUE)])

\* start(): from the return of createDatabaseIfNeeded to the gradle probe of
\* the build stage; writeOk says whether writeFileSync of mergeWriteEnv succeeds
SrvAfterDb(m, writeOk) ==
  LET w1 == log(m.w, "[env] wrote .env", TRUE)
      w2 == update(w1, [step |-> "starting", message |-> "Starting processes..."], TRUE)
      w3 == logAll(w2, <<"[env] Loaded environment variables: keys",
                         "[env] Warning: Missing Spring Boot environment variables: SPRING_DATASOURCE_URL, SPRING_JPA_SHOW_SQL",
                         "[build] server build start">>, TRUE)
      w4 == updateServer(w3, "building", "building the server", TRUE)
  IN  IF writeOk THEN [m EXCEPT !.w = w4, !.rr.pc = "s_gradle", !.rr.ex = NoExec]
                 ELSE Fail(m, "EACCES: open .env")

\* the errors the create-schema child can end with
MysqlErrors == {"spawn mysql ENOENT", "spawn mysql EACCES", "mysql exited with code 1"}

\* the remediation error thrown for a missing mysql
MysqlMissingMessage == "mysql command not found. Install MySQL and add its bin folder to PATH."

\* e?.message?.includes('ENOENT')
IncludesENOENT(msg) == msg = "spawn mysql ENOENT"

\* Mutant of MysqlCatch: a missing mysql is logged like any other failure.
MysqlCatch_LogsAll(m, msg, writeOk) ==
  SrvAfterDb([m EXCEPT !.w = log(m.w, "[mysql] DB create failed: " \o msg, TRUE)], writeOk)

\* catch (e) of createDatabaseIfNeeded, and start() up to its next await
MysqlCatch(m, msg, writeOk) ==
  IF IncludesENOENT(msg)
    THEN Fail(m, MysqlMissingMessage)
    ELSE SrvAfterDb([m EXCEPT !.w = log(m.w, "[mysql] DB create failed: " \o msg, TRUE)], writeOk)

\* the build stage: from the gradle probe to the await of the build
SrvAfterGradleProbe(m, ok) ==
  IF ok
    THEN execStream([m EXCEPT !.w = logAll(m.w, <<"[build] using the system Gradle",
                                                  "[build] gradle build --info --stacktrace @ server">>, TRUE)],
                    "s_build", "gradle build --info --stacktrace", TRUE)
    ELSE execStream([m EXCEPT !.w = logAll(m.w, <<"[build] no system Gradle, trying gradlew",
                                                  "[build] ./gradlew build --info --stacktrace @ server",
                                                  "[build] downloading the Gradle wrapper...">>, TRUE)],
                    "s_build",
                    "./gradlew build --info --stacktrace -Dorg.gradle.internal.network.timeout=300000",
                    TRUE)

\* start(): from the end of the build to return { ok: true }; srvSpawnOk and
\* spawnOk say whether spawn() created the server and the frontend process
SrvLaunch(m, r, srvSpawnOk, spawnOk) ==
  LET w1 == log(m.w, "[build] server build done", TRUE)
      w2 == updateServer(w1, "building", "server build done", TRUE)
      w3 == log(w2, "[start] build done, starting the server...", TRUE)
      w4 == updateServer(w3, "starting", "server starting", TRUE)
      w5 == log(w4, "[start] server via gradlew bootRun --info --stacktrace --debug", TRUE)
      w6 == updateClient(w5, "starting", "client starting", TRUE)
      w7 == log(w6, "[start] frontend via label", TRUE)
      w8 == updateServer(w7, "running", "server running", TRUE)
      w9 == updateClient(w8, "running", "client running", TRUE)
      w10 == update(w9, [step |-> "running", message |-> "Running",
                         serverPid |-> IF srvSpawnOk THEN SrvId(r) ELSE NullPid,
                         frontendPid |-> IF spawnOk THEN r ELSE NullPid], TRUE)
  IN  [m EXCEPT !.w = w10,
                !.server = SrvId(r),
                !.frontend = r,
                !.procs[SrvId(r)] = [state |-> IF srvSpawnOk THEN "alive" ELSE "failed",
                                     signalled |-> FALSE, exit |-> "none"],
                !.procs[r] = [state |-> IF spawnOk THEN "alive" ELSE "failed",
                              signalled |-> FALSE, exit |-> "none"],
                !.rr = [m.rr EXCEPT !.pc = "done", !.res = "ok", !.ex = NoExec]]

\* start(config, notify), up to the first await inside ensureTools()
SrvStartCall(cfg) == nStarts < MaxSrvStarts /\ StartCall(cfg)

\* ensureTools: gradle --version (never fatal), then start() up to the first clone/pull
SrvToolGradle(r, ok, mkdirOk) ==
  /\ run[r].pc = "tool_gradle"
  /\ Budget("tool_gradle", <<ok, mkdirOk>>)
  /\ LET m  == Dirty(SrvMachine(r, InFlight), <<ok, mkdirOk>>, ~mkdirOk)
         m1 == [m EXCEPT !.w = log(m.w, IF ok THEN "[tools] Gradle found."
                                              ELSE "[tools] Gradle not found. Will use gradlew if available.", FALSE)]
     IN  SrvApply(r, SrvAfterTools(m1, mkdirOk))
  /\ UNCHANGED <<rootEnv, dotenv, nStarts, nStops, stopInfo, call, ui>>

SrvExecPcs == {"yarn_install", "s_clone_server", "s_clone_front", "s_install_server",
               "s_install_front", "s_build"}

\* p.stdout.on('data') / p.stderr.on('data') of execStream
SrvExecData(r, kind) ==
  /\ run[r].pc \in SrvExecPcs
  /\ nEvents < MaxEvents
  /\ nEvents' = nEvents + 1
  /\ LET m == SrvMachine(r, InFlight)
     IN  SrvApply(r, [m EXCEPT !.w = log(m.w, ChunkLine("[build:out]", "[build:err]", kind), m.rr.ex.notify),
                               !.rr.ex.hasOutput = TRUE,
                               !.rr.ex.errs = IF kind = "errkw" THEN @ + 1 ELSE @])
  /\ UNCHANGED <<rootEnv, dotenv, nStarts, nStops, stopInfo, call, ui>>

\* what the awaiting code does when the promise of execStream resolves
SrvResolved(m, r, failAt, srvSpawnOk, spawnOk) ==
  CASE m.rr.pc = "yarn_install" ->
         [m EXCEPT !.w = log(m.w, "[tools] yarn has been installed globally.", FALSE),
                   !.rr.pc = "tool_java", !.rr.ex = NoExec]
    [] m.rr.pc = "s_clone_server"   -> SrvAfterCloneServer(m)
    [] m.rr.pc = "s_clone_front"    -> SrvAfterCloneFront(m, failAt)
    [] m.rr.pc = "s_install_server" -> SrvAfterInstallServer(m)
    [] m.rr.pc = "s_install_front"  -> SrvAfterInstallFront(m)
    [] m.rr.pc = "s_build"          -> SrvLaunch(m, r, srvSpawnOk, spawnOk)

\* Mutant of SrvRejected: a failed build is logged and the processes are started.
SrvRejected_IgnoresBuild(m, msg) ==
  IF m.rr.pc = "s_build"
    THEN SrvLaunch([m EXCEPT !.w = updateServer(log(m.w, "[build] server build failed: Error: " \o msg, TRUE),
                                                "error", "server build failed", TRUE)],
                   CHOOSE r \in RunIds : run[r].pc = "s_build", TRUE, TRUE)
    ELSE Fail(m, msg)

\* Mutant of SrvRejected: a failed sync of the server is followed by the frontend's.
SrvRejected_SyncsOn(m, msg) ==
  IF m.rr.pc = "s_clone_server" THEN SrvAfterCloneServer(m) ELSE Fail(m, msg)

\* what the awaiting code does when the promise of execStream rejects with msg
SrvRejected(m, msg) ==
  CASE m.rr.pc = "yarn_install" ->
         Fail([m EXCEPT !.w = log(m.w, "[tools] Failed to install yarn globally.", FALSE)],
              "yarn missing and npm install -g yarn failed")
    [] m.rr.pc \in {"s_clone_server", "s_clone_front"} -> Fail(m, msg)
    [] m.rr.pc = "s_install_server" ->
         Fail([m EXCEPT !.w = log(m.w, "[deps] build failed: Error: " \o msg, TRUE)], msg)
    [] m.rr.pc = "s_install_front" ->
         Fail([m EXCEPT !.w = log(m.w, "[deps] install failed: Error: " \o msg, TRUE)], msg)
    [] m.rr.pc = "s_build" ->
         Fail([m EXCEPT !.w = updateServer(log(m.w, "[build] server build failed: Error: " \o msg, TRUE),
                                           "error", "server build failed", TRUE)],
              msg)

\* The inputs that matter at this position: which env-file write fails matters
\* after the frontend's clone, whether the children spawn after the build.
SrvRelevant(pc, resolves, failAt, srvSpawnOk, spawnOk) ==
  /\ failAt # 0 => (pc = "s_clone_front" /\ resolves)
  /\ (~srvSpawnOk \/ ~spawnOk) => (pc = "s_build" /\ resolves)

\* p.on('exit') of execStream, and the continuation of start() up to its next await
SrvExecExit(r, code, failAt, srvSpawnOk, spawnOk) ==
  /\ run[r].pc \in SrvExecPcs
  /\ SrvRelevant(run[r].pc, code = 0, failAt, srvSpawnOk, spawnOk)
  /\ Budget(run[r].pc, <<code = 0, failAt = 0, srvSpawnOk, spawnOk>>)
  /\ LET m == Dirty(SrvMachine(r, InFlight), <<code = 0, failAt = 0, srvSpawnOk, spawnOk>>,
                  code # 0 \/ failAt # 0)
     IN  SrvApply(r, IF code = 0
                       THEN SrvResolved(m, r, failAt, srvSpawnOk, spawnOk)
                       ELSE SrvRejected(ExitFailure(m),
                                        m.rr.ex.cmd \o " exited with code 1. " \o ErrorSummary(m.rr.ex)))
  /\ UNCHANGED <<rootEnv, dotenv, nStarts, nStops, stopInfo, call, ui>>

\* p.on('error') of execStream (the command could not be spawned)
SrvExecError(r) ==
  /\ run[r].pc \in SrvExecPcs
  /\ Budget(run[r].pc, <<FALSE>>)
  /\ LET m  == Dirty(SrvMachine(r, InFlight), <<FALSE>>, TRUE)
         m1 == [m EXCEPT !.w = log(m.w, "[exec] Process error: spawn ENOENT", m.rr.ex.notify)]
     IN  SrvApply(r, SrvRejected(m1, "spawn ENOENT"))
  /\ UNCHANGED <<rootEnv, dotenv, nStarts, nStops, stopInfo, call, ui>>

\* ensureServerExtras: chmod +x gradlew (a failure is ignored), then start()
\* up to the await inside createDatabaseIfNeeded
SrvChmod(r, ok) ==
  /\ run[r].pc = "s_chmod"
  /\ Budget("s_chmod", <<ok>>)
  /\ LET m == Dirty(SrvMachine(r, InFlight), <<ok>>, FALSE)
     IN  SrvApply(r, SrvAfterChmod(m, ok))
  /\ UNCHANGED <<rootEnv, dotenv, nStarts, nStops, stopInfo, call, ui>>

\* p.stdout.on('data') / p.stderr.on('data') of the create-schema child
MysqlData(r) ==
  /\ run[r].pc = "s_mysql"
  /\ nEvents < MaxEvents
  /\ nEvents' = nEvents + 1
  /\ LET m == SrvMachine(r, InFlight)
     IN  SrvApply(r, [m EXCEPT !.w = log(m.w, "[mysql] text", TRUE)])
  /\ UNCHANGED <<rootEnv, dotenv, nStarts, nStops, stopInfo, call, ui>>

\* p.on('exit') of the create-schema child with code 0
MysqlExitOk(r, writeOk) ==
  /\ run[r].pc = "s_mysql"
  /\ Budget("s_mysql", <<writeOk>>)
  /\ LET m  == Dirty(SrvMachine(r, InFlight), <<writeOk>>, ~writeOk)
         m1 == [m EXCEPT !.w = log(m.w, "[mysql] ensured database mozu", TRUE), !.rr.db = "ok"]
     IN  SrvApply(r, SrvAfterDb(m1, writeOk))
  /\ UNCHANGED <<rootEnv, dotenv, nStarts, nStops, stopInfo, call, ui>>

\* p.on('exit') with another code, or p.on('error'): the promise rejects with msg
MysqlFailed(r, msg, writeOk) ==
  /\ run[r].pc = "s_mysql"
  /\ ~writeOk => ~IncludesENOENT(msg)
  /\ Budget("s_mysql", <<FALSE, writeOk>>)
  /\ LET m == Dirty(SrvMachine(r, InFlight), <<FALSE, writeOk>>, IncludesENOENT(msg) \/ ~writeOk)
     IN  SrvApply(r, MysqlCatch([m EXCEPT !.rr.db = msg], msg, writeOk))
  /\ UNCHANGED <<rootEnv, dotenv, nStarts, nStops, stopInfo, call, ui>>

\* the build stage: gradle --version, then the build with gradle or gradlew
SrvGradle(r, ok) ==
  /\ run[r].pc = "s_gradle"
  /\ Budget("s_gradle", <<ok>>)
  /\ LET m == Dirty(SrvMachine(r, InFlight), <<ok>>, FALSE)
     IN  SrvApply(r, SrvAfterGradleProbe(m, ok))
  /\ UNCHANGED <<rootEnv, dotenv, nStarts, nStops, stopInfo, call, ui>>

SrvExitLine(ec) ==
  CASE ec = "0"   -> "[server] exited (code=0, signal=null)"
    [] ec = "137" -> "[server] exited (code=137, signal=null)"
    [] ec = "sig" -> "[server] exited (code=null, signal=SIGINT)"

\* this.server.proc.stdout.on('data')
SrvData(p) ==
  /\ procs[p].state = "alive"
  /\ nEvents < MaxEvents
  /\ nEvents' = nEvents + 1
  /\ LET w == log(World(InFlight), "[server] text", TRUE)
     IN  /\ status' = w.st /\ lastEmitted' = w.em /\ emitSteps' = w.es
  /\ UNCHANGED <<server, frontend, workspace, procs, run, fsys, rootEnv, dotenv,
                 nStarts, nStops, stopInfo, call, ui>>

\* Mutant of SrvExit: a crash of the server takes the frontend down with it.
SrvExit_RollsBack(p, ec) ==
  /\ procs[p].state = "alive"
  /\ ec = "sig" => procs[p].signalled
  /\ LET w1 == log(World(InFlight), SrvExitLine(ec), TRUE)
         w2 == IF ec # "0" THEN updateClient(updateServer(w1, "error", "server exited unexpectedly", TRUE),
                                             "idle", "client exited", TRUE)
                           ELSE updateServer(w1, "idle", "server exited", TRUE)
     IN  /\ status' = w2.st /\ lastEmitted' = w2.em /\ emitSteps' = w2.es
  /\ procs' = IF ec # "0" THEN kill([procs EXCEPT ![p].state = "exited", ![p].exit = ec], frontend, TRUE)
                          ELSE [procs EXCEPT ![p].state = "exited", ![p].exit = ec]
  /\ frontend' = IF ec # "0" THEN 0 ELSE frontend
  /\ UNCHANGED <<server, workspace, run, fsys, rootEnv, dotenv,
                 nStarts, nStops, nEvents, stopInfo, call, ui>>

\* this.server.proc.on('exit', (code, signal) => ...)
SrvExit(p, ec) ==
  /\ procs[p].state = "alive"
  /\ ec = "sig" => procs[p].signalled
  /\ LET w1 == log(World(InFlight), SrvExitLine(ec), TRUE)
         w2 == IF ec # "0" THEN updateServer(w1, "error", "server exited unexpectedly", TRUE)
                           ELSE updateServer(w1, "idle", "server exited", TRUE)
     IN  /\ status' = w2.st /\ lastEmitted' = w2.em /\ emitSteps' = w2.es
  /\ procs' = [procs EXCEPT ![p].state = "exited", ![p].exit = ec]
  /\ UNCHANGED <<server, frontend, workspace, run, fsys, rootEnv, dotenv,
                 nStarts, nStops, nEvents, stopInfo, call, ui>>

ServerIds == {SrvId(r) : r \in RunIds}

NextServer ==
  \/ \E cfg \in Configs : SrvStartCall(cfg)
  \/ \E r \in RunIds, ok \in BOOLEAN : ToolGit(r, ok)
  \/ \E r \in RunIds, ok \in BOOLEAN : ToolNpm(r, ok)
  \/ \E r \in RunIds, ok \in BOOLEAN : ToolYarn(r, ok)
  \/ \E r \in RunIds, ok \in BOOLEAN : ToolJava(r, ok)
  \/ \E r \in RunIds, ok \in BOOLEAN : ToolJavac(r, ok)
  \/ \E r \in RunIds, ok, mkdirOk \in BOOLEAN : SrvToolGradle(r, ok, mkdirOk)
  \/ \E r \in RunIds, kind \in {"out", "err", "errkw"} : SrvExecData(r, kind)
  \/ \E r \in RunIds, code \in {0, 1}, failAt \in 0..Len(EnvFiles), srvSpawnOk, spawnOk \in BOOLEAN :
       SrvExecExit(r, code, failAt, srvSpawnOk, spawnOk)
  \/ \E r \in RunIds : SrvExecError(r)
  \/ \E r \in RunIds, ok \in BOOLEAN : SrvChmod(r, ok)
  \/ \E r \in RunIds : MysqlData(r)
  \/ \E r \in RunIds, writeOk \in BOOLEAN : MysqlExitOk(r, writeOk)
  \/ \E r \in RunIds, msg \in MysqlErrors, writeOk \in BOOLEAN : MysqlFailed(r, msg, writeOk)
  \/ \E r \in RunIds, ok \in BOOLEAN : SrvGradle(r, ok)
  \/ \E p \in ServerIds : SrvData(p)
  \/ \E p \in ServerIds, line \in ServerLines : ErrLine(p, line)
  \/ \E p \in ServerIds, ec \in ExitKinds : SrvExit(p, ec)
  \/ \E p \in RunIds, kind \in {"out", "err"} : FrontData(p, kind)
  \/ \E p \in RunIds, ec \in ExitKinds : FrontExit(p, ec)
  \/ \E delivered \in BOOLEAN : Stop(delivered)

SpecServer == Init /\ [][NextServer]_vars

\* ---------------------------------------------------------------------
\* The supervisor with several output chunks: the chunks of the children's
\* stdout and stderr streams carry their arrival number.
MaxChunks == 2      \* output chunks delivered by the children, in total

Streams == {"[build:out]", "[build:err]", "[frontend]", "[frontend:err]"}

\* a data callback: of the execStream child awaited by start() call r for the
\* [build:*] streams, of the frontend child spawned by call r for the others
LogData(r, stream) ==
  /\ nEvents < MaxChunks
  /\ nEvents' = nEvents + 1
  /\ LET line   == stream \o " chunk " \o ToString(nEvents + 1)
         isExec == stream \in {"[build:out]", "[build:err]"}
         m      == Machine(r, InFlight)
     IN  /\ IF isExec THEN run[r].pc \in ExecPcs ELSE procs[r].state = "alive"
         /\ Apply(r, IF isExec
                       THEN [m EXCEPT !.w = log(m.w, line, m.rr.ex.notify), !.rr.ex.hasOutput = TRUE]
                       ELSE [m EXCEPT !.w = log(m.w, line, TRUE)])
  /\ UNCHANGED <<server, rootEnv, dotenv, nStarts, nStops, stopInfo, call, ui>>

NextLog ==
  \/ \E cfg \in Configs : StartCall(cfg)
  \/ \E r \in RunIds, ok \in BOOLEAN : ToolGit(r, ok)
  \/ \E r \in RunIds, ok \in BOOLEAN : ToolNpm(r, ok)
  \/ \E r \in RunIds, ok \in BOOLEAN : ToolYarn(r, ok)
  \/ \E r \in RunIds, ok \in BOOLEAN : ToolJava(r, ok)
  \/ \E r \in RunIds, ok \in BOOLEAN : ToolJavac(r, ok)
  \/ \E r \in RunIds, ok, mkdirOk \in BOOLEAN : ToolGradle(r, ok, mkdirOk)
  \/ \E r \in RunIds, stream \in Streams : LogData(r, stream)
  \/ \E r \in RunIds, code \in {0, 1}, failAt \in 0..Len(EnvFiles), spawnOk \in BOOLEAN :
       ExecExit(r, code, failAt, spawnOk)
  \/ \E r \in RunIds, spawnOk \in BOOLEAN : ExecError(r, spawnOk)
  \/ \E p \in RunIds, ec \in ExitKinds : FrontExit(p, ec)
  \/ \E delivered \in BOOLEAN : Stop(delivered)

SpecLog == Init /\ [][NextLog]_vars

\* ---------------------------------------------------------------------
\* Helpers of the Orchestrator taken on their own (orchestrator.ts): one
\* call of resolveStartCommand, installDeps, execStream or the retry loop
\* of ensureRedisOnWSL. A command line is the sequence of its pieces between
\* single spaces, so "" is <<>> and " yarn" is <<"", "yarn">>; a target
\* directory is what the helpers look up in it (pkg: what package.json
\* holds, "none" when it is missing or does not parse).
Win32 == FALSE     \* process.platform === 'win32'

Blank(req) == \A i \in DOMAIN req : req[i] = ""

Words(req) == SelectSeq(req, LAMBDA t : t # "")

Dirs ==
  [gradle : BOOLEAN, gradlew : BOOLEAN, gradleInstalled : BOOLEAN,
   pkg : {"none", "bare", "start", "dev", "both"},
   yarnLock : BOOLEAN, pnpmLock : BOOLEAN, npmLock : BOOLEAN, nest : BOOLEAN]

detectPM(dir) == IF dir.yarnLock THEN "yarn" ELSE IF dir.pnpmLock THEN "pnpm" ELSE "npm"

Cmd(c, args, label) == [ok |-> TRUE, cmd |-> c, args |-> args, label |-> label]

GradleMissing == [ok |-> FALSE, err |-> "no gradlew file and Gradle is not installed"]

resolveStartCommand(dir, requested) ==
  LET gradlewPath == IF Win32 THEN "gradlew.bat" ELSE "./gradlew"
      bootRun     == <<"bootRun", "--info", "--stacktrace", "--debug">>
      localNest   == IF ~dir.nest THEN ""
                     ELSE IF Win32 THEN "node_modules/.bin/nest.cmd" ELSE "node_modules/.bin/nest"
      nest(suffix) ==
        IF localNest # "" THEN Cmd(localNest, <<"start", "--watch">>, "local nest" \o suffix)
        ELSE Cmd("npx", <<"nest", "start", "--watch">>, "npx nest" \o suffix)
      pm          == detectPM(dir)
  IN
  IF dir.gradle
    THEN IF ~Blank(requested)
           THEN IF Head(requested) = "./gradlew"
                  THEN IF dir.gradlew
                         THEN Cmd(gradlewPath, Words(Tail(requested)), "gradlew (requested)")
                       ELSE IF dir.gradleInstalled
                         THEN Cmd("gradle", Words(Tail(requested)), "gradle (fallback)")
                       ELSE GradleMissing
                  ELSE Cmd(Head(requested), Tail(requested), "requested")
           ELSE IF dir.gradlew THEN Cmd(gradlewPath, bootRun, "gradlew bootRun --info --stacktrace --debug")
                ELSE Cmd("gradle", bootRun, "gradle bootRun --info --stacktrace --debug")
  ELSE IF Len(requested) >= 2 /\ requested[1] \in {"nest", "nest.cmd"} /\ requested[2] = "start"
    THEN nest("")
  ELSE IF dir.pkg # "none" /\ ~Blank(requested)
    THEN Cmd(Head(requested), Tail(requested), "requested")
  ELSE IF dir.pkg \in {"dev", "both"}
    THEN Cmd(pm, <<"run", "start:dev">>, pm \o " run start:dev")
  ELSE IF dir.pkg \in {"start", "both"}
    THEN Cmd(pm, <<"run", "start">>, pm \o " run start")
  ELSE nest(" (fallback)")

StartRequests ==
  { <<>>, <<"npm", "run", "dev">>, <<"nest", "start", "--debug">>, <<"./gradlew", "bootRun">> }

ResolveStart ==
  /\ call.fn = "resolveStartCommand" /\ call.pc = "called"
  /\ call' = [call EXCEPT !.pc = "done", !.out = resolveStartCommand(call.in.dir, call.in.requested)]
  /\ UNCHANGED <<status, server, frontend, workspace, procs, run, fsys, rootEnv,
                 lastEmitted, emitSteps, nStarts, nStops, nEvents, stopInfo, dotenv, ui>>

\* Mutant of lockfileInstall: pnpm-lock.yaml is looked for before yarn.lock.
lockfileInstall_PnpmFirst(dir) ==
  IF dir.pnpmLock THEN <<"pnpm", "install">>
  ELSE IF dir.yarnLock THEN <<"corepack", "yarn", "install">>
  ELSE IF dir.npmLock  THEN <<"npm", "ci">>
  ELSE <<"npm", "install">>

\* the install command of a Node directory when the caller names none
lockfileInstall(dir) ==
  IF dir.yarnLock THEN <<"corepack", "yarn", "install">>
  ELSE IF dir.pnpmLock THEN <<"pnpm", "install">>
  ELSE IF dir.npmLock  THEN <<"npm", "ci">>
  ELSE <<"npm", "install">>

\* installDeps up to its execStream: the command it runs, or the error it
\* throws before running one
installCommand(dir, cmd) ==
  LET gradlewPath   == IF Win32 THEN "gradlew.bat" ELSE "./gradlew"
      verbose(args) == IF \E i \in DOMAIN args : args[i] \in {"build", "bootRun"}
                         THEN args \o <<"--info", "--stacktrace">> ELSE args
      split(c)      == Cmd(Head(c), Tail(c), "")
  IN
  IF dir.gradle
    THEN LET c1 == IF cmd # <<>> THEN cmd
                   ELSE IF dir.gradlew THEN <<gradlewPath, "build">> ELSE <<"gradle", "build">>
         IN  IF Head(c1) = "./gradlew"
               THEN IF dir.gradlew THEN Cmd(gradlewPath, verbose(Words(Tail(c1))), "")
                    ELSE IF dir.gradleInstalled THEN Cmd("gradle", verbose(Words(Tail(c1))), "")
                    ELSE GradleMissing
               ELSE split(c1)
    ELSE IF Words(cmd) # <<>> /\ Head(Words(cmd)) = "yarn" THEN split(<<"corepack", "yarn", "install">>)
    ELSE IF cmd # <<>>  THEN split(cmd)
    ELSE split(lockfileInstall(dir))

InstallRequests ==
  { <<>>, <<"yarn", "install">>, <<"", "yarn">>, <<"npm", "run", "setup">>, <<"./gradlew", "assemble">> }

\* installDeps is called and reaches its execStream, or throws
InstallCall ==
  /\ call.fn = "installDeps" /\ call.pc = "called"
  /\ LET c == installCommand(call.in.dir, call.in.cmd)
     IN  call' = [call EXCEPT !.pc = IF c.ok THEN "exec" ELSE "done",
                              !.out = [c |-> c, code |-> -1,
                                       res |-> IF c.ok THEN "none" ELSE "rejected",
                                       err |-> IF c.ok THEN "" ELSE c.err]]
  /\ UNCHANGED <<status, server, frontend, workspace, procs, run, fsys, rootEnv,
                 lastEmitted, emitSteps, nStarts, nStops, nEvents, stopInfo, dotenv, ui>>

\* the command ends: installDeps returns, or rethrows what execStream threw
\* (a gradle that is not installed cannot exit with 0)
InstallExit(code) ==
  /\ call.fn = "installDeps" /\ call.pc = "exec"
  /\ call.out.c.cmd = "gradle" /\ ~call.in.dir.gradleInstalled => code # 0
  /\ call' = [call EXCEPT !.pc = "done", !.out.code = code,
                          !.out.res = IF code = 0 THEN "resolved" ELSE "rejected",
                          !.out.err = IF code = 0 THEN ""
                                      ELSE call.out.c.cmd \o " exited with code " \o ToString(code)]
  /\ UNCHANGED <<status, server, frontend, workspace, procs, run, fsys, rootEnv,
                 lastEmitted, emitSteps, nStarts, nStops, nEvents, stopInfo, dotenv, ui>>

\* execStream, with the chunks its child writes: chunk n of a stream, kw the
\* word it carries
MaxOutput == 4      \* chunks one child writes

Keywords == {"", "error", "FAILED"}

Lower(kw) == IF kw = "FAILED" THEN "failed" ELSE kw

\* Mutant of lastThree: the first three messages are kept.
lastThree_First(msgs) == SubSeq(msgs, 1, IF Len(msgs) < 3 THEN Len(msgs) ELSE 3)

\* errorMessages.slice(-3)
lastThree(msgs) == SubSeq(msgs, IF Len(msgs) < 3 THEN 1 ELSE Len(msgs) - 2, Len(msgs))

\* a 'data' event of the child's stdout or stderr
StreamData(stream, kw) ==
  /\ call.fn = "execStream" /\ call.pc = "spawned"
  /\ Len(call.out.chunks) < MaxOutput
  /\ LET chunk == [n |-> Len(call.out.chunks) + 1, stream |-> stream, kw |-> kw]
     IN  call' = [call EXCEPT
                    !.out.chunks = Append(@, chunk),
                    !.out.hasOutput = TRUE,
                    !.out.errorMessages =
                       IF stream = "stderr" /\ Lower(kw) \in {"error", "failed", "exception"}
                         THEN Append(@, chunk) ELSE @]
  /\ UNCHANGED <<status, server, frontend, workspace, procs, run, fsys, rootEnv,
                 lastEmitted, emitSteps, nStarts, nStops, nEvents, stopInfo, dotenv, ui>>

\* how a child ends: 'exit' with a code, 'exit' on a signal (code null, here
\* -1), or 'error' when it could not be spawned
Endings == { [event |-> "exit", code |-> 0], [event |-> "exit", code |-> 1],
             [event |-> "exit", code |-> -1], [event |-> "error", code |-> -1] }

StreamEnd(e) ==
  /\ call.fn = "execStream" /\ call.pc = "spawned"
  /\ e.event = "error" => call.out.chunks = <<>>
  /\ call' = [call EXCEPT
       !.pc = "done",
       !.out.ending = e,
       !.out.res = IF e.event = "exit" /\ e.code = 0 THEN "resolved" ELSE "rejected",
       !.out.err = IF e.event = "error" THEN [spawn |-> TRUE, code |-> -1, summary |-> <<>>]
                   ELSE IF e.code = 0 THEN @
                   ELSE [spawn |-> FALSE, code |-> e.code, summary |-> lastThree(call.out.errorMessages)]]
  /\ UNCHANGED <<status, server, frontend, workspace, procs, run, fsys, rootEnv,
                 lastEmitted, emitSteps, nStarts, nStops, nEvents, stopInfo, dotenv, ui>>

\* the retry loop that ends ensureRedisOnWSL: pc is the await it is
\* suspended at, pings and delays count the awaits it has started
RedisAttempts == 5

\* Mutant of PingExit: the loop goes on while attempts >= 0.
PingExit_OneMore(ok) ==
  /\ call.fn = "ensureRedisOnWSL" /\ call.pc = "ping"
  /\ call' = IF ok THEN [call EXCEPT !.pc = "done", !.out.res = "resolved"]
             ELSE IF call.out.attempts - 1 >= 0
               THEN [call EXCEPT !.pc = "delay", !.out.attempts = @ - 1, !.out.delays = @ + 1]
             ELSE [call EXCEPT !.pc = "done", !.out.attempts = @ - 1, !.out.res = "rejected"]
  /\ UNCHANGED <<status, server, frontend, workspace, procs, run, fsys, rootEnv,
                 lastEmitted, emitSteps, nStarts, nStops, nEvents, stopInfo, dotenv, ui>>

\* the redis-cli ping that is awaited ends
PingExit(ok) ==
  /\ call.fn = "ensureRedisOnWSL" /\ call.pc = "ping"
  /\ call' = IF ok THEN [call EXCEPT !.pc = "done", !.out.res = "resolved"]
             ELSE IF call.out.attempts - 1 > 0
               THEN [call EXCEPT !.pc = "delay", !.out.attempts = @ - 1, !.out.delays = @ + 1]
             ELSE [call EXCEPT !.pc = "done", !.out.attempts = @ - 1, !.out.res = "rejected"]
  /\ UNCHANGED <<status, server, frontend, workspace, procs, run, fsys, rootEnv,
                 lastEmitted, emitSteps, nStarts, nStops, nEvents, stopInfo, dotenv, ui>>

\* the two seconds have passed: the loop pings again
DelayElapsed ==
  /\ call.fn = "ensureRedisOnWSL" /\ call.pc = "delay"
  /\ call' = [call EXCEPT !.pc = "ping", !.out.pings = @ + 1]
  /\ UNCHANGED <<status, server, frontend, workspace, procs, run, fsys, rootEnv,
                 lastEmitted, emitSteps, nStarts, nStops, nEvents, stopInfo, dotenv, ui>>

Calls ==
  { [fn |-> "resolveStartCommand", in |-> [dir |-> d, requested |-> q], pc |-> "called", out |-> <<>>] :
      d \in Dirs, q \in StartRequests }
  \cup
  { [fn |-> "installDeps", in |-> [dir |-> d, cmd |-> q], pc |-> "called", out |-> <<>>] :
      d \in Dirs, q \in InstallRequests }
  \cup
  { [fn |-> "execStream", in |-> <<>>, pc |-> "spawned",
     out |-> [chunks |-> <<>>, hasOutput |-> FALSE, errorMessages |-> <<>>,
              ending |-> [event |-> "none", code |-> 0], res |-> "none",
              err |-> [spawn |-> FALSE, code |-> 0, summary |-> <<>>]]],
    [fn |-> "ensureRedisOnWSL", in |-> <<>>, pc |-> "ping",
     out |-> [attempts |-> RedisAttempts, pings |-> 1, delays |-> 0, res |-> "none"]] }

InitCalls == InitBase /\ rootEnv /\ dotenv = NoDotenv /\ ui = InitUi /\ call \in Calls

NextCalls ==
  \/ ResolveStart
  \/ InstallCall
  \/ \E code \in {0, 1} : InstallExit(code)
  \/ \E stream \in {"stdout", "stderr"}, kw \in Keywords : StreamData(stream, kw)
  \/ \E e \in Endings : StreamEnd(e)
  \/ \E ok \in BOOLEAN : PingExit(ok)
  \/ DelayElapsed

SpecCalls == InitCalls /\ [][NextCalls]_vars

\* ... with every awaited ping and delay of the retry loop coming to an end
SpecCallsFair == SpecCalls /\ WF_vars(\E ok \in BOOLEAN : PingExit(ok)) /\ WF_vars(DelayElapsed)

\* ---------------------------------------------------------------------
\* The renderer: App (App.tsx) with its start and stop buttons. The main
\* process is what it looks like from there: status snapshots sent while a
\* start request is pending, and the return of the request.
MaxRequests == 3    \* start requests the user makes

\* <Button onClick={startLesson} disabled={isRunning && currentStep !== 'error'}>
StartDisabled == ui.isRunning /\ ui.currentStep # "error"

\* <Button onClick={stop} disabled={!isRunning && currentStep === 'idle'}>
StopDisabled == ~ui.isRunning /\ ui.currentStep = "idle"

\* the onStatusUpdate callback, for a snapshot a start in flight has emitted
OnStatusUpdate(step) ==
  /\ ui.pending > 0
  /\ step \in {"checking-tools", "preparing", "cloning", "installing", "starting", "running", "error"}
  /\ ui' = [ui EXCEPT !.currentStep = step,
                      !.isRunning = IF step = "error" THEN FALSE ELSE step = "running",
                      !.error = IF step = "error" THEN TRUE ELSE @]
  /\ UNCHANGED <<status, server, frontend, workspace, procs, run, fsys, rootEnv,
                 lastEmitted, emitSteps, nStarts, nStops, nEvents, stopInfo, dotenv, call>>

\* startLesson, up to its await: a click on the start button (the folder
\* path passes the checks)
StartLesson ==
  /\ ~StartDisabled
  /\ ui.requests < MaxRequests
  /\ ui' = [ui EXCEPT !.error = FALSE, !.isRunning = TRUE,
                      !.pending = @ + 1, !.requests = @ + 1]
  /\ UNCHANGED <<status, server, frontend, workspace, procs, run, fsys, rootEnv,
                 lastEmitted, emitSteps, nStarts, nStops, nEvents, stopInfo, dotenv, call>>

\* startLesson after its await: the request has returned res
StartReturned(ok) ==
  /\ ui.pending > 0
  /\ ui' = IF ok THEN [ui EXCEPT !.pending = @ - 1]
           ELSE [ui EXCEPT !.pending = @ - 1, !.error = TRUE, !.isRunning = FALSE]
  /\ UNCHANGED <<status, server, frontend, workspace, procs, run, fsys, rootEnv,
                 lastEmitted, emitSteps, nStarts, nStops, nEvents, stopInfo, dotenv, call>>

\* stop, up to its await: a click on the stop button
StopClicked ==
  /\ ~StopDisabled
  /\ ui' = [ui EXCEPT !.isRunning = FALSE, !.currentStep = "idle", !.error = FALSE]
  /\ UNCHANGED <<status, server, frontend, workspace, procs, run, fsys, rootEnv,
                 lastEmitted, emitSteps, nStarts, nStops, nEvents, stopInfo, dotenv, call>>

NextUi ==
  \/ StartLesson
  \/ \E step \in DOMAIN StepOrder \cup {"error"} : OnStatusUpdate(step)
  \/ \E ok \in BOOLEAN : StartReturned(ok)
  \/ StopClicked

InitApp == Init /\ rootEnv

SpecUi == InitApp /\ [][NextUi]_vars

\* ---------------------------------------------------------------------
\* ProcessManager.startAll, and the Orchestrator's startSpringServer, taken
\* on their own. call.pc is the await the function is suspended at;
\* out.child is the child that await listens to, out.ends what each await
\* has ended with.
\* ---------------------------------------------------------------------

ChildStages == {"installDeps", "createDatabase", "java", "choco", "chocoInstall", "build"}
FsStages    == {"gradlew", "env", "jar"}
PMStages    == ChildStages \cup FsStages

JavaInstalled == "Java has been installed. Please restart the application."

NoJava(fn) ==
  IF fn = "startAll"
    THEN "Java is not installed and Chocolatey is not found. Please install Java 17 or Chocolatey first."
    ELSE "Java is not installed and Chocolatey is not found/failed. Please install Java 17 or Chocolatey first."

\* the awaits whose promise has an 'error' listener on the child:
\* executeCommand, execChecked and execStream have one, the promises of
\* ProcessManager.installDeps and createDatabase listen to 'exit' only
Listened(fn, stage) == fn = "startSpringServer" \/ stage \notin {"installDeps", "createDatabase"}

PMReject(c, msg) == [c EXCEPT !.pc = "done", !.out.child = "none", !.out.res = "rejected", !.out.err = msg]
PMResolve(c)     == [c EXCEPT !.pc = "done", !.out.child = "none", !.out.res = "resolved"]
PMAwait(c, stage) ==
  [c EXCEPT !.pc = stage, !.out.child = IF stage \in ChildStages THEN "alive" ELSE "none"]

\* startFrontend: synchronous; throws when package.json has no dev or start script
startFrontend(c) ==
  IF ~c.in.frontendRepoPath THEN PMResolve(c)
  ELSE IF ~c.in.script THEN PMReject(c, "no dev/start script in the frontend repo")
  ELSE PMResolve([c EXCEPT !.out.frontend = TRUE])

\* what follows the server: startAll goes on to the frontend
AfterServer(c) == IF c.fn = "startAll" THEN startFrontend(c) ELSE PMResolve(c)

\* startServer / startSpringServer up to the first await
startServer(c) ==
  IF ~c.in.win32
    THEN IF c.fn = "startAll" THEN AfterServer(c)
         ELSE PMReject(c, "Spring Boot server launch is currently only supported on Windows.")
  ELSE IF c.fn = "startAll" /\ ~c.in.serverRepoPath
    THEN PMReject(c, "serverRepoPath is not provided for Spring Boot server.")
  ELSE PMAwait(c, "java")

createDatabase(c) == IF ~c.in.createIfNotExists THEN startServer(c) ELSE PMAwait(c, "createDatabase")

startAll(c) == IF c.in.frontendRepoPath THEN PMAwait(c, "installDeps") ELSE createDatabase(c)

\* the catch around the Chocolatey check and install: whatever was thrown
\* inside, it throws the same new Error
ChocoCatch(c, thrown) == PMReject(c, NoJava(c.fn))

\* the function resumes after the await at c.pc ended well (ok) or threw
Settled(c, ok) ==
  CASE c.pc = "installDeps"    -> IF ok THEN createDatabase(c) ELSE PMReject(c, "npm install failed")
    [] c.pc = "createDatabase" -> IF ok THEN startServer(c) ELSE PMReject(c, "mysql exited")
    [] c.pc = "java"           -> IF ok THEN PMAwait(c, "gradlew") ELSE PMAwait(c, "choco")
    [] c.pc = "choco"          -> IF ok THEN PMAwait(c, "chocoInstall") ELSE ChocoCatch(c, "choco --version failed")
    [] c.pc = "chocoInstall"   -> IF ok THEN ChocoCatch(c, JavaInstalled) ELSE ChocoCatch(c, "choco install failed")
    [] c.pc = "gradlew"        -> IF ok THEN PMAwait(c, "env") ELSE PMReject(c, "gradlew.bat not found")
    [] c.pc = "env"            -> IF ok THEN PMAwait(c, "build")
                                  ELSE PMReject(c, "Failed to create .env file for Spring project")
    [] c.pc = "build"          -> IF ok THEN PMAwait(c, "jar") ELSE PMReject(c, "gradlew clean build failed")
    [] c.pc = "jar"            -> IF ok THEN AfterServer([c EXCEPT !.out.server = TRUE])
                                  ELSE PMReject(c, "No executable JAR file found in build/libs directory.")

\* the function is called and runs to its first await
PMCall ==
  /\ call.fn \in {"startAll", "startSpringServer"} /\ call.pc = "called"
  /\ call' = IF call.fn = "startAll" THEN startAll(call) ELSE startServer(call)
  /\ UNCHANGED <<status, server, frontend, workspace, procs, run, fsys, rootEnv,
                 lastEmitted, emitSteps, nStarts, nStops, nEvents, stopInfo, dotenv, ui>>

\* 'exit' of the awaited child; a child that could not be spawned has no
\* exit code 0
ChildExit(code) ==
  /\ call.fn \in {"startAll", "startSpringServer"} /\ call.pc \in ChildStages
  /\ call.out.child \in {"alive", "failing"}
  /\ call.out.child = "failing" => code # 0
  /\ call' = Settled([call EXCEPT !.out.ends[call.pc] = IF code = 0 THEN "ok" ELSE "fail"], code = 0)
  /\ UNCHANGED <<status, server, frontend, workspace, procs, run, fsys, rootEnv,
                 lastEmitted, emitSteps, nStarts, nStops, nEvents, stopInfo, dotenv, ui>>

\* 'error' of the awaited child: it could not be spawned. With a listener the
\* promise rejects; without one the event is an uncaught exception and the
\* promise is left as it is. 'exit' may or may not fire after 'error'.
ChildError(exitFollows) ==
  /\ call.fn \in {"startAll", "startSpringServer"} /\ call.pc \in ChildStages
  /\ call.out.child = "alive"
  /\ call' = IF Listened(call.fn, call.pc)
               THEN Settled([call EXCEPT !.out.ends[call.pc] = "error"], FALSE)
               ELSE [call EXCEPT !.out.ends[call.pc] = "error", !.out.uncaught = TRUE,
                                 !.out.child = IF exitFollows THEN "failing" ELSE "failed"]
  /\ UNCHANGED <<status, server, frontend, workspace, procs, run, fsys, rootEnv,
                 lastEmitted, emitSteps, nStarts, nStops, nEvents, stopInfo, dotenv, ui>>

\* an awaited fs.promises call (access, readFile/writeFile, readdir) ends
FsDone(ok) ==
  /\ call.fn \in {"startAll", "startSpringServer"} /\ call.pc \in FsStages
  /\ call' = Settled([call EXCEPT !.out.ends[call.pc] = IF ok THEN "ok" ELSE "fail"], ok)
  /\ UNCHANGED <<status, server, frontend, workspace, procs, run, fsys, rootEnv,
                 lastEmitted, emitSteps, nStarts, nStops, nEvents, stopInfo, dotenv, ui>>

NoPMOut ==
  [child |-> "none", ends |-> [s \in PMStages |-> "none"], res |-> "none", err |-> "",
   uncaught |-> FALSE, server |-> FALSE, frontend |-> FALSE]

PMCalls ==
  { [fn |-> "startAll", pc |-> "called", out |-> NoPMOut,
     in |-> [frontendRepoPath |-> f, script |-> s, createIfNotExists |-> d, win32 |-> w, serverRepoPath |-> p]] :
      f \in BOOLEAN, s \in BOOLEAN, d \in BOOLEAN, w \in BOOLEAN, p \in BOOLEAN }
  \cup
  { [fn |-> "startSpringServer", pc |-> "called", out |-> NoPMOut,
     in |-> [frontendRepoPath |-> FALSE, script |-> FALSE, createIfNotExists |-> FALSE, win32 |-> w,
             serverRepoPath |-> TRUE]] : w \in BOOLEAN }

InitPM == InitBase /\ rootEnv /\ dotenv = NoDotenv /\ ui = InitUi /\ call \in PMCalls

ChildEvent == (\E code \in {0, 1} : ChildExit(code)) \/ (\E exitFollows \in BOOLEAN : ChildError(exitFollows))

NextPM ==
  \/ PMCall
  \/ \E code \in {0, 1} : ChildExit(code)
  \/ \E exitFollows \in BOOLEAN : ChildError(exitFollows)
  \/ \E ok \in BOOLEAN : FsDone(ok)

SpecPM == InitPM /\ [][NextPM]_vars

\* ... with every spawned child coming to an end (it exits, or it fails to
\* spawn) and every fs call returning
SpecPMFair == SpecPM /\ WF_vars(PMCall) /\ WF_vars(ChildEvent) /\ WF_vars(\E ok \in BOOLEAN : FsDone(ok))

\* ====================================================================
\* Claims
\* ====================================================================
Pipeline == <<"checking-tools", "preparing", "cloning", "installing", "starting", "running">>

Undisturbed(r) == run[r].res = "ok" /\ ~run[r].stopped

LeadingSteps(r) ==
  IF rootEnv /\ run[r].from # "checking-tools" THEN <<run[r].from>> ELSE <<>>

C2_FailStops ==
  [][\A r \in RunIds :
       run'[r].fatal =>
         /\ run'[r].pc = "done" /\ run'[r].res = "fail" /\ run'[r].err # ""
         /\ procs'[r].state = "none"
         /\ IF run[r].fatal
              THEN run'[r] = run[r]
              ELSE status'.step = "error" /\ status'.message = run'[r].err]_vars

C2_Witness ==
  \E r \in RunIds :
    /\ run[r].fatal /\ run[r].res = "fail"
    /\ run[r].err = "npm install exited with code 1. see the log above"
    /\ status.step = "error" /\ status.message = run[r].err
    /\ procs[r].state = "none"

\* C3: once stop() has resolved, no child that the supervisor tracked when
\* stop() was called is still alive.
C3_NoOrphanAfterStop ==
  stopInfo.pc = "resolved" => \A p \in stopInfo.tracked : procs[p].state # "alive"

\* C4: whatever the state stop() is called in, and whether or not the kill
\* reaches the child, stop() ends with the status record equal to
\* {step: idle, logs: []} and with both handles null.
C4_StopResets ==
  [][nStops' # nStops => status' = IdleStatus /\ server' = 0 /\ frontend' = 0]_vars

C4_Witness ==
  /\ stopInfo.pc = "resolved" /\ stopInfo.from = "running"
  /\ stopInfo.tracked # {} /\ stopInfo.killFailed
  /\ status = IdleStatus /\ frontend = 0 /\ server = 0
  /\ \E p \in stopInfo.tracked : procs[p].state = "alive"

\* C5: in the main-process variant a stop issued while a frontend process
\* is tracked ends, like a stop issued when nothing is tracked, with the
\* shared status recreated as {step: idle, logs: []} and the frontend handle null.
C5_MainStopResets ==
  [][(stopInfo.pc # "resolved" /\ stopInfo'.pc = "resolved") =>
       (status' = IdleStatus /\ frontend' = 0)]_vars

Forward(s, t) ==
  \/ t = "error" /\ s # "error"
  \/ s # "error" /\ t # "error" /\ StepOrder[s] < StepOrder[t]

Monotone(seq) == \A i \in 1..(Len(seq) - 1) : Forward(seq[i], seq[i + 1])

\* the emitted step values of call r without the leading pre-call value
OwnSteps(r) == SubSeq(emitSteps[r], Len(LeadingSteps(r)) + 1, Len(emitSteps[r]))

C7_FrontendExit ==
  [][\A p \in RunIds :
       (procs[p].state = "alive" /\ procs'[p].state = "exited") =>
         /\ status'.step = status.step
         /\ status'.logs = Append(status.logs, ExitLine(procs'[p].exit))
         /\ status'.client.step = IF procs'[p].exit = "0" THEN "idle" ELSE "error"]_vars

C7_Witness ==
  \E p \in RunIds :
    /\ procs[p].state = "exited" /\ procs[p].exit = "137"
    /\ status.step = "running" /\ status.client.step = "error"
    /\ status.logs # <<>> /\ status.logs[Len(status.logs)] = ExitLine("137")

\* C8: frontendPid is non-null only while the frontend child is alive, and
\* the supervisor's handle is null once the child has exited.
C8_PidOnlyWhileAlive ==
  /\ status.frontendPid \in RunIds => procs[status.frontendPid].state = "alive"
  /\ frontend # 0 => procs[frontend].state # "exited"

IsPrefix(s, t) == Len(s) <= Len(t) /\ SubSeq(t, 1, Len(s)) = s

\* C9: every mutation of the status record other than stop() keeps the
\* previous logs as a prefix of the new logs.
C9_LogsAppendOnly ==
  [][nStops' = nStops => IsPrefix(status.logs, status'.logs)]_vars

C9_Witness ==
  /\ status.step = "error" /\ status.message = Guidance[5].message
  /\ Len(status.logs) > Len(Guidance[5].lines) + 6
  /\ SubSeq(status.logs, Len(status.logs) - Len(Guidance[5].lines) + 1, Len(status.logs))
       = Guidance[5].lines
  /\ status.client.step = "running"

\* C10: every mutation of the status is followed by an emission of the new
\* snapshot, so the snapshot the subscriber holds is the current status.
C10_EveryMutationEmitted == lastEmitted = status

Range(seq) == {seq[i] : i \in DOMAIN seq}

GitMissing(r) == run[r].probes # <<>> /\ ~run[r].probes[1].ok

\* C11: when git is absent, start() fails at checking-tools: no further
\* probe and no command is run, no clone or pull is invoked, and the
\* filesystem is what it was when start() was called (no workspace directory
\* and no repository subdirectory has been created).
C11_GitAbsentFailsFirst ==
  /\ [](\A r \in RunIds : GitMissing(r) =>
          /\ run[r].pc = "done" /\ run[r].res = "fail"
          /\ Len(run[r].probes) = 1 /\ run[r].cmds = <<>> /\ run[r].ws = ""
          /\ ~run[r].stopped => OwnSteps(r) = <<"checking-tools", "error">>)
  /\ [][\A r \in RunIds : (~GitMissing(r) /\ GitMissing(r)') => fsys' = run[r].fs0]_vars

C11_Witness ==
  \E r \in RunIds :
    /\ GitMissing(r) /\ run[r].res = "fail" /\ status.step = "error"
    /\ run[r].fs0.created = {} /\ fsys.created = {} /\ fsys.git = {}

GitCommand(cfg, hasGit) ==
  IF hasGit THEN "git pull"
  ELSE IF cfg.branch # "" THEN "git clone -b " \o cfg.branch \o " url ." ELSE "git clone url ."

\* C12: repository sync chooses by the presence of .git in the target
\* directory: absent, a clone into the directory itself (with -b <branch> when
\* a branch is given); present, a pull. A second successful start on the same
\* workspace therefore runs a pull and no clone.
C12_CloneOrPull ==
  /\ [][\A r \in RunIds : (run[r].pc # "clone" /\ run'[r].pc = "clone") =>
          run'[r].cmds = Append(run[r].cmds,
                                GitCommand(run'[r].cfg, run'[r].ws \in fsys.git))]_vars
  /\ [](\A r1, r2 \in RunIds :
          (r1 < r2 /\ run[r1].res = "ok" /\ run[r2].res = "ok" /\ run[r1].ws = run[r2].ws) =>
            /\ "git pull" \in Range(run[r2].cmds)
            /\ Range(run[r2].cmds) \cap {GitCommand(c, FALSE) : c \in Configs} = {})

C12_Witness ==
  /\ run[1].res = "ok" /\ run[2].res = "ok" /\ run[1].ws = run[2].ws
  /\ "git clone -b main url ." \in Range(run[1].cmds)
  /\ "git pull" \in Range(run[2].cmds)

\* C13: a start() call made after a run has ended in error begins from a
\* fresh status: its emitted steps are idle and then checking-tools, and no
\* log line, sub-status or pid field of the failed run is left in the status.
C13_FreshRestart ==
  [][\A r \in RunIds :
       (run[r].pc = "init" /\ run'[r].pc # "init" /\ status.step = "error") =>
         /\ emitSteps'[r] = <<"idle", "checking-tools">>
         /\ status'.logs \in {<<>>, <<"[env] Loaded root .env">>}
         /\ status'.client = NoSub /\ status'.server = NoSub
         /\ status'.serverPid = NoPid /\ status'.frontendPid = NoPid]_vars

\* C14: when the frontend start command cannot be spawned, start() returns
\* {ok: false}, the step becomes error, and it never becomes running for
\* that run.
C14_SpawnFailureFails ==
  \A r \in RunIds : procs[r].state = "failed" =>
    /\ run[r].res = "fail"
    /\ "running" \notin Range(emitSteps[r])

\* C15: a long-lived child is spawned only by the start() call it belongs
\* to; after a child has exited nothing is spawned in its place and the
\* exited child stays exited.
C15_NoAutoRestart ==
  [][\A p \in RunIds : procs'[p].state # procs[p].state =>
       \/ /\ procs[p].state = "none"
          /\ run[p].pc = "peer" /\ run'[p].pc = "done" /\ run'[p].res = "ok"
          /\ frontend' = p
       \/ /\ procs[p].state = "alive" /\ procs'[p].state = "exited"
          /\ \A q \in RunIds \ {p} : procs'[q] = procs[q]
          /\ frontend' = frontend]_vars

C15_Witness ==
  /\ nStarts = 1 /\ InFlight = {}
  /\ procs[1].state = "exited" /\ procs[1].exit = "137"
  /\ procs[2].state = "none" /\ frontend = 1
  /\ status.client.step = "error"

\* C16: for every mapping m of string keys to string values, values with
\* spaces, single or double quotes or '#' included,
\* parseDotEnv(stringifyDotEnv(m)) = m.
C16_DotenvRoundTrip == dotenv.pc = "parsed" => dotenv.out = dotenv.m

\* C17: the workspace of a run is config.workspaceDir when it is given and
\* the default location otherwise, whatever earlier calls have used.
C17_WorkspacePerCall ==
  \A r \in RunIds : run[r].ws # "" =>
    run[r].ws = IF run[r].cfg.workspaceDir # "" THEN run[r].cfg.workspaceDir
                ELSE DefaultWorkspace

ProbeOk(r, cmd) == [cmd |-> cmd, ok |-> TRUE] \in Range(run[r].probes)

\* C19: in a frontend-only run the tool check does not fail for a missing
\* JVM: with git, npm and yarn available the run gets past checking-tools.
C19_NoJvmNeeded ==
  \A r \in RunIds :
    ( /\ ProbeOk(r, "git --version") /\ ProbeOk(r, "npm --version")
      /\ ProbeOk(r, "yarn --version") \/ ProbeOk(r, "npm install -g yarn")
      /\ run[r].pc = "done" /\ ~run[r].stopped )
    => "preparing" \in Range(emitSteps[r])

\* the probe that follows probe p in ensureTools; "none" after a fatal failure
\* and after the last probe
Succ(p) ==
  CASE p.cmd = "git --version"       -> IF p.ok THEN "npm --version" ELSE "none"
    [] p.cmd = "npm --version"       -> IF p.ok THEN "yarn --version" ELSE "none"
    [] p.cmd = "yarn --version"      -> IF p.ok THEN "java --version" ELSE "npm install -g yarn"
    [] p.cmd = "npm install -g yarn" -> IF p.ok THEN "java --version" ELSE "none"
    [] p.cmd = "java --version"      -> IF p.ok THEN "gradle --version" ELSE "javac --version"
    [] p.cmd = "javac --version"     -> IF p.ok THEN "gradle --version" ELSE "none"
    [] p.cmd = "gradle --version"    -> "none"

Last(seq) == seq[Len(seq)]

\* the position at which the outcome of probe cmd is awaited
ProbePc(cmd) == CHOOSE pc \in DOMAIN ProbeAt : ProbeAt[pc] = cmd

\* C20: ensureTools probes git, npm, yarn, java (javac as fallback) and
\* gradle in this order; a missing git or npm, a failed npm install -g yarn
\* after a missing yarn, and a missing java and javac are fatal and no probe
\* follows them; a missing gradle is not fatal.
C20_ProbeOrder ==
  \A r \in RunIds : LET ps == run[r].probes IN
    ps # <<>> =>
      /\ ps[1].cmd = "git --version"
      /\ \A i \in 1..(Len(ps) - 1) : ps[i + 1].cmd = Succ(ps[i])
      /\ (Last(ps).cmd # "gradle --version" /\ Succ(Last(ps)) = "none") =>
           /\ run[r].pc = "done" /\ run[r].res = "fail"
           /\ run[r].ws = "" /\ Len(run[r].cmds) <= 1
      /\ (Last(ps).cmd # "gradle --version" /\ Succ(Last(ps)) # "none") =>
           run[r].pc = ProbePc(Succ(Last(ps)))
      /\ Last(ps).cmd = "gradle --version" => run[r].ws # ""

C20_Witness ==
  \E r \in RunIds :
    /\ run[r].probes = << [cmd |-> "git --version", ok |-> TRUE],
                          [cmd |-> "npm --version", ok |-> TRUE],
                          [cmd |-> "yarn --version", ok |-> FALSE],
                          [cmd |-> "npm install -g yarn", ok |-> FALSE] >>
    /\ run[r].res = "fail" /\ status.step = "error"
\* ---------------------------------------------------------------------
\* how the create-schema command of start() call r has ended
DbEnded(r, msgs) == run[r].db \in msgs

\* the call has failed with the error that names the missing mysql, its last
\* emitted step is error, and neither the server nor the frontend was spawned
FailedOnMysql(r) ==
  /\ run[r].pc = "done" /\ run[r].res = "fail" /\ run[r].err = MysqlMissingMessage
  /\ Last(emitSteps[r]) = "error" /\ "running" \notin Range(emitSteps[r])
  /\ procs[SrvId(r)].state = "none" /\ procs[r].state = "none"

\* the failure msg of the create-schema command has only been logged and
\* start() has gone on: to the 'starting' step and the server's build stage
\* or, when the write of the server's .env throws, to the failure on that
LoggedAndProceeds(r, msg) ==
  /\ "[mysql] DB create failed: " \o msg \in Range(status'.logs)
  /\ \/ /\ run'[r].pc = "s_gradle" /\ run'[r].res = "none"
        /\ status'.step = "starting" /\ status'.server.step = "building"
     \/ /\ run'[r].res = "fail" /\ run'[r].err = "EACCES: open .env"
        /\ status'.step = "error" /\ status'.message = "EACCES: open .env"

\* C18 as stated: whenever mysql cannot be spawned (not found or not
\* executable) the run fails with the error naming mysql and spawns neither
\* child; a non-zero exit is only logged and the workflow proceeds.
C18_Original ==
  /\ [](\A r \in RunIds :
          DbEnded(r, {"spawn mysql ENOENT", "spawn mysql EACCES"}) => FailedOnMysql(r))
  /\ [][\A r \in RunIds :
          (DbEnded(r, {"spawned"}) /\ DbEnded(r, {"mysql exited with code 1"})') =>
             LoggedAndProceeds(r, "mysql exited with code 1")]_vars

\* C18: in the server-inclusive workflow, when the spawn of mysql fails with
\* ENOENT (binary not found) the run fails with the error naming the missing
\* mysql command, step = error, and neither the server nor the frontend is
\* spawned; any other failure of the create-schema command (a non-zero exit,
\* or a spawn error other than ENOENT) is only logged and the workflow
\* proceeds towards the server start.
C18_DbProvisioning ==
  /\ [](\A r \in RunIds : DbEnded(r, {"spawn mysql ENOENT"}) => FailedOnMysql(r))
  /\ [][\A r \in RunIds :
          /\ (DbEnded(r, {"spawned"}) /\ DbEnded(r, {"spawn mysql ENOENT"})') =>
                (status'.step = "error" /\ status'.message = MysqlMissingMessage)
          /\ \A msg \in MysqlErrors \ {"spawn mysql ENOENT"} :
                (DbEnded(r, {"spawned"}) /\ DbEnded(r, {msg})') => LoggedAndProceeds(r, msg)]_vars

C18_Witness ==
  \E r \in RunIds :
    /\ DbEnded(r, {"spawn mysql ENOENT"})
    /\ status.step = "error" /\ status.message = MysqlMissingMessage
    /\ run[r].cmds # <<>> /\ server = 0 /\ frontend = 0

\* ---------------------------------------------------------------------
\* the commands of the server's build stage
BuildCommands ==
  {"gradle build --info --stacktrace",
   "./gradlew build --info --stacktrace -Dorg.gradle.internal.network.timeout=300000"}

\* the execStream commands of start() call r out of cmds that ended with outcome ok
Ended(r, cmds, ok) == {i \in DOMAIN run[r].exits : run[r].exits[i].cmd \in cmds /\ run[r].exits[i].ok = ok}

NoChild(r) == procs[SrvId(r)].state = "none" /\ procs[r].state = "none"

\* C21: with a Gradle server the build has run to completion, successfully,
\* before the server process is spawned; when the build fails the server
\* sub-status and the top-level step become error, start() returns
\* {ok: false}, and neither the server nor the frontend is spawned.
C21_BuildBeforeSpawn ==
  /\ [](\A r \in RunIds :
          /\ ~NoChild(r) => (Ended(r, BuildCommands, TRUE) # {} /\ run[r].pc = "done")
          /\ Ended(r, BuildCommands, FALSE) # {} =>
                /\ run[r].pc = "done" /\ run[r].res = "fail"
                /\ NoChild(r)
                /\ Last(emitSteps[r]) = "error" /\ "running" \notin Range(emitSteps[r]))
  /\ [][\A r \in RunIds :
          (Ended(r, BuildCommands, FALSE) = {} /\ (Ended(r, BuildCommands, FALSE) # {})') =>
             /\ status'.server.step = "error" /\ status'.step = "error"
             /\ server' = server /\ frontend' = frontend]_vars

C21_Witness ==
  \E r \in RunIds :
    /\ Ended(r, BuildCommands, FALSE) # {}
    /\ status.server.step = "error" /\ status.step = "error"
    /\ run[r].res = "fail" /\ server = 0 /\ frontend = 0

\* the clone or pull commands
SyncCommands == {"git pull", "git clone url .", "git clone -b main url ."}

SyncsStarted(r) == {i \in DOMAIN run[r].cmds : run[r].cmds[i] \in SyncCommands}

\* C22: the repositories are synchronized in the order server, frontend,
\* each awaited before the next: the frontend's sync is started by the
\* successful end of the server's; when the server's sync fails the
\* frontend's is never started, no command is run again, and the run ends
\* in step = error.
C22_SyncOrder ==
  /\ [](\A r \in RunIds :
          /\ Cardinality(SyncsStarted(r)) <= 2
          /\ Cardinality(SyncsStarted(r)) = 2 => Ended(r, SyncCommands, TRUE) # {}
          /\ Cardinality(SyncsStarted(r)) =
                Cardinality(Ended(r, SyncCommands, TRUE)) + Cardinality(Ended(r, SyncCommands, FALSE))
                + (IF run[r].pc \in {"s_clone_server", "s_clone_front"} THEN 1 ELSE 0)
          /\ run[r].pc = "s_clone_front" =>
                (Cardinality(SyncsStarted(r)) = 2 /\ Cardinality(Ended(r, SyncCommands, TRUE)) = 1)
          /\ Ended(r, SyncCommands, FALSE) # {} =>
                /\ run[r].pc = "done" /\ run[r].res = "fail"
                /\ Last(run[r].exits).cmd \in SyncCommands /\ Last(run[r].cmds) \in SyncCommands
                /\ Last(emitSteps[r]) = "error")
  /\ [][\A r \in RunIds :
          /\ run'[r].pc = "s_clone_front" /\ run[r].pc # "s_clone_front" =>
                (run[r].pc = "s_clone_server" /\ Last(run'[r].exits).ok)
          /\ (run[r].pc = "s_clone_server" /\ (Ended(r, SyncCommands, FALSE) # {})') =>
                (run'[r].cmds = run[r].cmds /\ status'.step = "error")]_vars

C22_Witness ==
  \E r \in RunIds :
    /\ Ended(r, SyncCommands, FALSE) # {} /\ Ended(r, SyncCommands, TRUE) = {}
    /\ Cardinality(SyncsStarted(r)) = 1
    /\ status.step = "error" /\ run[r].res = "fail"

\* C23: an exit of the server process, with any code, changes only the
\* server sub-status and the log: the frontend handle, the frontend process,
\* the client sub-status and frontendPid stay as they are.
C23_ServerExitFrame ==
  [][\A r \in RunIds :
       (procs[SrvId(r)].state = "alive" /\ procs'[SrvId(r)].state = "exited") =>
          /\ frontend' = frontend /\ server' = server
          /\ \A q \in ProcIds \ {SrvId(r)} : procs'[q] = procs[q]
          /\ status'.server.step \in {"error", "idle"}
          /\ Len(status'.logs) = Len(status.logs) + 1 /\ IsPrefix(status.logs, status'.logs)
          /\ status' = [status EXCEPT !.server = status'.server, !.logs = status'.logs]]_vars

C23_Witness ==
  \E r \in RunIds :
    /\ procs[SrvId(r)].state = "exited" /\ procs[SrvId(r)].exit = "137"
    /\ procs[r].state = "alive" /\ frontend = r
    /\ status.server.step = "error" /\ status.client.step = "running"
    /\ status.frontendPid = r

\* ---------------------------------------------------------------------
\* the arrival number of the output chunk a log line relays; 0 for another line
ChunkNos ==
  [line \in {st \o " chunk " \o ToString(k) : st \in Streams, k \in 1..MaxChunks} |->
     CHOOSE k \in 1..MaxChunks : \E st \in Streams : line = st \o " chunk " \o ToString(k)]

ChunkNo(line) == IF line \in DOMAIN ChunkNos THEN ChunkNos[line] ELSE 0

\* a data callback of a child: nothing but the status and the count of events changes
DataStep ==
  /\ nEvents' = nEvents + 1
  /\ procs' = procs /\ nStops' = nStops /\ nStarts' = nStarts
  /\ \A r \in RunIds : run'[r].pc = run[r].pc

\* C24: whatever the interleaving of the children's data callbacks with the
\* controller's updates, the line of a chunk is appended to logs as it
\* arrives (exactly once, at the end), the relayed chunks stand in logs in
\* arrival order, logs only grow between two stop() calls, and each emitted
\* snapshot's logs extend those of the snapshot emitted before it unless
\* stop() came in between.
C24_LogInterleaving ==
  /\ [](LET ns == SelectSeq([i \in DOMAIN status.logs |-> ChunkNo(status.logs[i])],
                            LAMBDA k : k # 0)
        IN  \A i \in 1..(Len(ns) - 1) : ns[i] < ns[i + 1])
  /\ [][DataStep =>
          \E st \in Streams :
            status'.logs = Append(status.logs, st \o " chunk " \o ToString(nEvents'))]_vars
  /\ [][nStops' = nStops => IsPrefix(status.logs, status'.logs)]_vars
  /\ [][(nStops' = nStops /\ IsPrefix(lastEmitted.logs, status.logs)) =>
          (IsPrefix(lastEmitted.logs, lastEmitted'.logs) /\ IsPrefix(lastEmitted'.logs, status'.logs))]_vars

C24_Witness ==
  \E i, j \in DOMAIN status.logs :
    /\ i < j
    /\ status.logs[i] = "[frontend] chunk 1" /\ status.logs[j] = "[build:err] chunk 2"
    /\ procs[1].state = "alive" /\ run[2].pc = "install"
    /\ lastEmitted = status

\* ---------------------------------------------------------------------
\* Claims about the helpers taken on their own (SpecCalls)
StartResolved == call.fn = "resolveStartCommand" /\ call.pc = "done"

\* C25 (as stated): the start command of the frontend (a directory without
\* build.gradle) is the command the caller supplied whenever that is
\* non-empty; otherwise <pm> run start:dev if package.json defines start:dev,
\* else <pm> run start if it defines start, else the local nest binary if
\* there is one, else npx nest.
C25_StartCommand ==
  StartResolved /\ ~call.in.dir.gradle =>
    LET q == call.in.requested
        d == call.in.dir
        o == call.out
    IN  /\ o.ok
        /\ IF q # <<>> THEN <<o.cmd>> \o o.args = q
           ELSE IF d.pkg \in {"dev", "both"} THEN o.args = <<"run", "start:dev">>
           ELSE IF d.pkg = "start" THEN o.args = <<"run", "start">>
           ELSE IF d.nest THEN o.cmd = "node_modules/.bin/nest" /\ o.args = <<"start", "--watch">>
           ELSE o.cmd = "npx" /\ o.args = <<"nest", "start", "--watch">>

Installing == call.fn = "installDeps" /\ call.pc \in {"exec", "done"}

InstallLine == IF call.out.c.ok THEN <<call.out.c.cmd>> \o call.out.c.args ELSE <<>>

YarnCommand == Words(call.in.cmd) # <<>> /\ Head(Words(call.in.cmd)) = "yarn"

InstallSelection ==
  Installing =>
    LET d == call.in.dir
    IN  /\ call.in.cmd = <<>> /\ d.gradle /\ d.gradlew =>
             /\ Len(InstallLine) >= 2
             /\ InstallLine[1] = "./gradlew" /\ InstallLine[2] = "build"
        /\ call.in.cmd = <<>> /\ d.gradle /\ ~d.gradlew =>
             /\ InstallLine = <<"gradle", "build">>
             /\ ~d.gradleInstalled /\ call.pc = "done" => call.out.res = "rejected"
        /\ call.in.cmd = <<>> /\ ~d.gradle =>
             InstallLine = IF d.yarnLock THEN <<"corepack", "yarn", "install">>
                           ELSE IF d.pnpmLock THEN <<"pnpm", "install">>
                           ELSE IF d.npmLock THEN <<"npm", "ci">>
                           ELSE <<"npm", "install">>
        /\ call.pc = "done" /\ call.out.code > 0 =>
             call.out.res = "rejected" /\ call.out.err # ""

Streamed == call.fn = "execStream" /\ call.pc = "done"

\* the stderr chunks that carry one of the words, as the child wrote them
ErrorChunks ==
  SelectSeq(call.out.chunks,
            LAMBDA c : c.stream = "stderr" /\ Lower(c.kw) \in {"error", "failed", "exception"})

\* C29: execStream resolves exactly when its child exits with code 0; on any
\* other exit (a non-zero code or a signal) it rejects with an error that
\* carries the exit code and the last (at most three) stderr chunks holding
\* 'error', 'failed' or 'exception', in the order they arrived; when the
\* child cannot be spawned it rejects with the spawn error, and nothing is
\* run again.
C29_ExecResult ==
  Streamed =>
    LET e == call.out.ending
        s == call.out.err.summary
        n == Len(ErrorChunks)
    IN  /\ call.out.res \in {"resolved", "rejected"}
        /\ call.out.res = "resolved" <=> e.event = "exit" /\ e.code = 0
        /\ e.event = "exit" /\ e.code # 0 =>
             /\ ~call.out.err.spawn /\ call.out.err.code = e.code
             /\ Len(s) = IF n < 3 THEN n ELSE 3
             /\ \A i \in 1..Len(s) : s[i] = ErrorChunks[n - Len(s) + i]
        /\ e.event = "error" => call.out.err.spawn

C29_Witness ==
  /\ Streamed /\ call.out.res = "rejected"
  /\ Len(ErrorChunks) = 4 /\ Len(call.out.err.summary) = 3

\* the retry loop at one of its awaits or past them
RetryLoopShape ==
  call.fn = "ensureRedisOnWSL" =>
    LET o == call.out
        failed == RedisAttempts - o.attempts
    IN  /\ o.pings \in 1..5 /\ o.delays \in 0..4
        /\ call.pc = "ping"  => o.res = "none" /\ failed = o.pings - 1 /\ o.delays = o.pings - 1
        /\ call.pc = "delay" => o.res = "none" /\ failed = o.pings /\ o.delays = o.pings
        /\ call.pc = "done" /\ o.res = "resolved" => failed = o.pings - 1 /\ o.delays = o.pings - 1
        /\ call.pc = "done" /\ o.res = "rejected" => failed = 5 /\ o.pings = 5 /\ o.delays = 4
        /\ call.pc = "done" => o.res \in {"resolved", "rejected"}

\* C30: the loop that verifies Redis pings at most 5 times, waits once
\* between two consecutive pings (at most 4 waits), returns at the first ping
\* that succeeds and throws after the 5th failed ping; when every ping and
\* every wait comes to an end, so does the loop.
C30_BoundedRetry ==
  /\ []RetryLoopShape
  /\ [][\A ok \in BOOLEAN : PingExit(ok) =>
           call'.pc = IF ok \/ call.out.pings = 5 THEN "done" ELSE "delay"]_vars
  /\ (call.fn = "ensureRedisOnWSL") ~> (call.pc = "done")

C30_Witness ==
  /\ call.fn = "ensureRedisOnWSL" /\ call.pc = "done"
  /\ call.out.res = "rejected" /\ call.out.pings = 5 /\ call.out.delays = 4

\* ---------------------------------------------------------------------
\* Claims about the files start() leaves behind
EnvFilesOf(dir) == {<<dir, EnvFiles[i]>> : i \in DOMAIN EnvFiles}

AtInstall(r) == run[r].pc = "install"

EnvFailedAt(r, i) == run[r].err = "Failed to create .env file at " \o EnvFiles[i]

\* C28 (as stated): createFrontendEnvFiles writes the four .env files of the
\* frontend packages; when the write of one of them fails, the error names
\* that file, no later file of the set is written, the run ends in error,
\* and none of the files of the set is left written by the failed attempt.
C28_EnvFilesAllOrNothing ==
  \A r \in RunIds :
    /\ run[r].pc \in {"install", "peer"} => run[r].wrote = EnvFiles
    /\ \A i \in DOMAIN EnvFiles :
         EnvFailedAt(r, i) =>
           /\ run[r].pc = "done" /\ run[r].res = "fail"
           /\ \A j \in DOMAIN run[r].wrote : run[r].wrote[j] \notin {EnvFiles[k] : k \in i..Len(EnvFiles)}
           /\ \A j \in DOMAIN run[r].wrote : <<run[r].ws, run[r].wrote[j]>> \notin fsys.env

\* ---------------------------------------------------------------------
\* Claims about the classifier, overlapping calls and the other variants
ErrStep(line) ==
  /\ Len(status'.logs) > Len(status.logs)
  /\ status'.logs[Len(status.logs) + 1] = "[server:err] " \o line

\* C31: detectServerErrors is first-match-wins over its seven rules in the
\* order Redis, MySQL, port, property binding, Java/Kotlin version, build,
\* Spring: for a stderr chunk at most one rule fires, the first whose
\* condition holds on the lower-cased text; it sets step = error with that
\* rule's message and appends that rule's remediation lines, and only those,
\* after the existing logs; when no rule matches the status is left as it is.
C31_FirstMatchWins ==
  [][\A line \in ServerLines :
       ErrStep(line) =>
         LET logged == Append(status.logs, "[server:err] " \o line)
             hits   == {k \in 1..7 : Matches(line)[k]}
         IN  IF hits = {} THEN status' = [status EXCEPT !.logs = logged]
             ELSE \E k \in hits :
                    /\ \A j \in hits : k <= j
                    /\ status' = [status EXCEPT !.step = "error",
                                                !.message = Guidance[k].message,
                                                !.logs = logged \o Guidance[k].lines]]_vars

C31_Witness ==
  /\ status.step = "error" /\ status.message = Guidance[1].message
  /\ \E i \in DOMAIN status.logs :
       /\ status.logs[i] = "[server:err] Spring: Failed to start bean 'redis': Connection refused"
       /\ SubSeq(status.logs, i + 1, Len(status.logs)) = Guidance[1].lines

\* C32 (as stated): once stop() has resolved, and until start() is called
\* again, the step stays idle and no child is spawned, also when stop() was
\* called while a start() call was suspended in a tool check, a clone or an
\* install.
C32_QuietAfterStop ==
  [][(stopInfo.pc = "resolved" /\ status.step = "idle" /\ nStarts' = nStarts) =>
       /\ status'.step = "idle"
       /\ \A p \in ProcIds : procs'[p].state = "alive" => procs[p].state = "alive"]_vars

\* C33 (as stated): after stop() has resolved with no start() call in
\* flight, and until start() is called again, the output and exit callbacks
\* of the children that stop() has terminated leave the status alone: logs
\* stay empty and the client sub-status does not become error.
C33_StoppedChildrenSilent ==
  [][(stopInfo.pc = "resolved" /\ InFlight = {} /\ status = IdleStatus /\ nStarts' = nStarts) =>
       /\ status'.logs = <<>>
       /\ status'.client.step # "error"]_vars

\* C34 (as stated): at most one frontend child is alive at any time, and it
\* is the one the frontend handle refers to; a start() call made while an
\* earlier frontend is running never leaves that one alive and without a
\* handle (stop() apart: the states before any stop() call are looked at).
C34_SingleFrontend ==
  nStops = 0 => \A p \in RunIds : procs[p].state = "alive" => frontend = p

\* C35 (as stated): from the click that triggers a start until that request
\* has returned, the start button stays disabled, whatever status updates
\* arrive, so that no second start request is made while one is pending.
C35_StartButtonLocked ==
  /\ ui.pending > 0 => StartDisabled
  /\ ui.pending <= 1

\* C36 (as stated): the server sub-status is running only if a server
\* process has been spawned (the server handle is set and serverPid is a
\* pid); a run that starts no server never reports server.step = running.
C36_ServerRunningHasServer ==
  status.server.step = "running" => server # 0 /\ status.serverPid \in ProcIds

\* C37: start() always resolves, with one of two shapes: {ok: true}, and
\* then the step it has set last is running, or {ok: false, error}, and
\* then the step it has set last is error and status.message is the error
\* it returns.
C37_ResultShape ==
  /\ [](\A r \in RunIds : run[r].res \in {"none", "ok", "fail"}
                          /\ (run[r].pc = "done" <=> run[r].res # "none"))
  /\ [][\A r \in RunIds :
          (run[r].pc # "done" /\ run'[r].pc = "done") =>
            \/ run'[r].res = "ok" /\ status'.step = "running"
            \/ /\ run'[r].res = "fail" /\ run'[r].err # ""
               /\ status'.step = "error" /\ status'.message = run'[r].err]_vars

C37_Witness ==
  \E r \in RunIds :
    /\ run[r].pc = "done" /\ run[r].res = "fail" /\ run[r].err = "EACCES: mkdir"
    /\ status.step = "error" /\ status.message = "EACCES: mkdir"

\* C38 (as stated): in the server-inclusive workflow, once start() has
\* returned {ok: true} and while both children are alive, the step stays
\* running: what the server writes to stderr changes the log only.
C38_RunningWhileAlive ==
  [][(/\ status.step = "running" /\ InFlight = {}
      /\ server # 0 /\ frontend # 0
      /\ procs[server].state = "alive" /\ procs[frontend].state = "alive"
      /\ procs'[server].state = "alive" /\ procs'[frontend].state = "alive"
      /\ nStarts' = nStarts /\ nStops' = nStops)
       => status'.step = "running"]_vars

\* C39 (as stated): the promises of ProcessManager.installDeps and
\* createDatabase are always eventually settled, so startAll never waits
\* forever at one of them.
C39_AlwaysSettled ==
  (call.fn = "startAll" /\ call.pc \in {"installDeps", "createDatabase"})
    ~> (call.fn = "startAll" /\ call.pc \notin {"installDeps", "createDatabase"})

\* C40 (as stated): with Java missing and a Chocolatey install of OpenJDK
\* that succeeded, the server start fails with 'Java has been installed.
\* Please restart the application.'
C40_RestartMessage ==
  (/\ call.fn \in {"startAll", "startSpringServer"} /\ call.pc = "done"
   /\ call.out.ends["java"] \in {"fail", "error"}
   /\ call.out.ends["choco"] = "ok" /\ call.out.ends["chocoInstall"] = "ok")
    => call.out.res = "rejected" /\ call.out.err = JavaInstalled

====
